---- MODULE Spec2Model ----
(***************************************************************************)
(* Bracket reconstruction and transaction value attribution of the         *)
(* fantasy-league dashboard:                                               *)
(*   - get_playoff_seeds and build_tournament_bracket                      *)
(*     (fantasy_football_ui/bracket_visualizer.py),                        *)
(*   - the champion / runner-up derivations of the history view, the       *)
(*     league overview and the post-season records book,                   *)
(*   - the seed-range partition of the consolation feed into the toilet    *)
(*     bowl (seeds 9..12) and the consolation bracket (seeds 5..8),        *)
(*   - the valuation of trades and waiver pickups from the weekly          *)
(*     snapshots (transactions_helper.py, display_transactions_tab).       *)
(*                                                                         *)
(* Python's None is modelled by 0: roster ids, seeds, rounds of bracket    *)
(* records and matchup ids are positive integers in the data.  Points are  *)
(* kept in hundredths (fpts * 100 + fpts_decimal).                         *)
(***************************************************************************)
EXTENDS Integers, Sequences, FiniteSets, TLC

VARIABLES
    rosters,             \* roster list of the season (input order)
    seed_map,            \* roster_id -> seed
    winners_bracket,     \* flat list of winners-bracket records
    losers_bracket,      \* flat list of consolation-feed records
    structured_bracket,  \* round -> list of bracket nodes
    champion,            \* roster id of the reported champion, None = TBD
    runner_up,           \* roster id of the reported runner-up, None = TBD
    toilet_bowl_matchups,    \* flat list of the records filtered into the lower tier
    toilet_bowl_rounds_dict, \* round -> lower-tier records shown for the round
    consolation_rounds_dict, \* round -> middle-tier records of the round
    display_toilet_bowl_rounds, \* round -> lower-tier records as displayed (round 2 split)
    toilet_bowl_bracket,     \* round -> nodes of the drawn lower-tier bracket
    consolation_bracket,     \* round -> nodes of the drawn middle-tier bracket
    toilet_bowl_champion,    \* roster id of the lower-tier champion, None = TBD
    toilet_bowl_loser,       \* roster id of the last-place finisher, None = TBD
    transactions,        \* raw transactions of the season
    players,             \* player catalog: player id -> full name
    matchup_data,        \* week -> roster id -> [starters, players_points]
    trades,              \* parsed trades
    waivers,             \* parsed waiver pickups
    trade_analyses,      \* rows of the detailed trade analysis
    valuable_pickups,    \* rows of the FAAB value analysis
    frame,               \* the valuation loop in progress
    first_place_season,  \* roster id of the team shown as first place, None = TBD
    available_seasons,   \* the seasons of the records book, in processing order
    post_idx,            \* post-season records loop: index of the next season
    toilet_idx,          \* toilet bowl records loop: index of the next season
    team_post_season_stats,  \* team -> post-season totals
    team_toilet_bowl_stats,  \* team -> toilet bowl totals
    all_trades,          \* combined trades of all years
    all_waivers,         \* combined waiver pickups of all years
    all_add_drops,       \* combined free-agent moves of all years
    call_feeds,          \* the grouped feeds a caller holds (arguments of the calls)
    round_winners,       \* round -> matchup id -> winner, as the last call left it
    call_log,            \* the calls made so far: function, input, result
    pc                   \* which operation has produced the outputs

inputs == <<rosters, winners_bracket, losers_bracket>>

bracket_outputs == <<structured_bracket, champion, runner_up>>

tier_outputs == <<toilet_bowl_matchups, toilet_bowl_rounds_dict, consolation_rounds_dict,
                  display_toilet_bowl_rounds, toilet_bowl_bracket, consolation_bracket,
                  toilet_bowl_champion, toilet_bowl_loser>>

transaction_inputs == <<transactions, players, matchup_data>>

transaction_state == <<transaction_inputs, trades, waivers, trade_analyses,
                       valuable_pickups, frame>>

records_state == <<available_seasons, post_idx, toilet_idx, team_post_season_stats,
                   team_toilet_bowl_stats, all_trades, all_waivers, all_add_drops>>

call_state == <<call_feeds, round_winners, call_log>>

season_state == <<first_place_season, records_state, call_state>>

vars == <<inputs, seed_map, bracket_outputs, tier_outputs, transaction_state,
          season_state, pc>>

None == 0

(***************************************************************************)
(* Generic helpers                                                         *)
(***************************************************************************)
Range(s) == {s[i] : i \in 1..Len(s)}

Min(a, b) == IF a < b THEN a ELSE b

\* dict.get(key, default)
DictGet(d, key, default) == IF key \in DOMAIN d THEN d[key] ELSE default

\* the empty dict {}
EmptyDict == [x \in {} |-> None]

(***************************************************************************)
(* get_playoff_seeds                                                       *)
(***************************************************************************)
SeedLimit == 12

\* points = fpts + fpts_decimal / 100, in hundredths
Points(roster) == roster.fpts * 100 + roster.fpts_decimal

\* the standings entry built for one roster
StandingsEntry(roster) ==
    [roster_id |-> roster.roster_id, wins |-> roster.wins, points |-> Points(roster)]

\* variant of KeyGreater that compares wins only
KeyGreaterWinsOnly(a, b) ==
    a.wins > b.wins

\* key comparison of the sort: (wins, points) tuples, a's key > b's key
KeyGreater(a, b) ==
    \/ a.wins > b.wins
    \/ a.wins = b.wins /\ a.points > b.points

\* insert e behind every element whose key is >= e's key (stable)
RECURSIVE InsertDescending(_, _)
InsertDescending(sorted, e) ==
    IF sorted = <<>> THEN <<e>>
    ELSE IF KeyGreater(e, Head(sorted)) THEN <<e>> \o sorted
    ELSE <<Head(sorted)>> \o InsertDescending(Tail(sorted), e)

\* standings.sort(key=(wins, points), reverse=True): stable, descending
RECURSIVE SortStandings(_)
SortStandings(standings) ==
    IF standings = <<>> THEN <<>>
    ELSE InsertDescending(SortStandings(SubSeq(standings, 1, Len(standings) - 1)),
                          standings[Len(standings)])

\* variant of AssignSeeds that numbers the standings from 0 (enumerate without start)
AssignSeedsFromZero(standings) ==
    LET top == SubSeq(standings, 1, Min(Len(standings), SeedLimit))
        ids == {top[i].roster_id : i \in 1..Len(top)}
    IN  [id \in ids |->
            (CHOOSE i \in 1..Len(top) :
                /\ top[i].roster_id = id
                /\ \A j \in 1..Len(top) : top[j].roster_id = id => j <= i) - 1]

\* for idx, team in enumerate(standings[:12], 1): seed_map[roster_id] = idx
\* (a later entry with the same roster_id overwrites an earlier one)
AssignSeeds(standings) ==
    LET top == SubSeq(standings, 1, Min(Len(standings), SeedLimit))
        ids == {top[i].roster_id : i \in 1..Len(top)}
    IN  [id \in ids |->
            CHOOSE i \in 1..Len(top) :
                /\ top[i].roster_id = id
                /\ \A j \in 1..Len(top) : top[j].roster_id = id => j <= i]

get_playoff_seeds(rs) ==
    AssignSeeds(SortStandings([i \in 1..Len(rs) |-> StandingsEntry(rs[i])]))

(***************************************************************************)
(* build_tournament_bracket                                                *)
(*                                                                         *)
(* A bracket record is [r, t1, t2, w, l, m]; a bracket node is             *)
(* [team1_id, team2_id, team1_seed, team2_seed, winner_id, matchup_id].    *)
(***************************************************************************)
\* rounds_dict: the flat record list grouped by matchup.get('r', 0), each
\* round keeping the records in feed order
GroupByRound(bracket) ==
    [rn \in {bracket[i].r : i \in 1..Len(bracket)} |->
        SelectSeq(bracket, LAMBDA m : m.r = rn)]

\* sorted(d.keys()) for a set of integers
RECURSIVE SortedKeys(_)
SortedKeys(S) ==
    IF S = {} THEN <<>>
    ELSE LET lo == CHOOSE x \in S : \A y \in S : x <= y
         IN  <<lo>> \o SortedKeys(S \ {lo})

\* d[key] = value
DictSet(d, key, value) ==
    [x \in (DOMAIN d) \cup {key} |-> IF x = key THEN value ELSE d[x]]

\* list(d.values()) as a set
DictValues(d) == {d[k] : k \in DOMAIN d}

\* expected_pairs = [(1, 8), (4, 5), (2, 7), (3, 6)]
expected_pairs == <<<<1, 8>>, <<4, 5>>, <<2, 7>>, <<3, 6>>>>

\* variant of MatchesSeedPair that accepts the pair in one orientation only
MatchesSeedPairOneWay(m, sm, seed1, seed2) ==
    DictGet(sm, m.t1, None) = seed1 /\ DictGet(sm, m.t2, None) = seed2

\* the generator condition of next(...): the record's participants carry the
\* two seeds of the pair, in either order
MatchesSeedPair(m, sm, seed1, seed2) ==
    \/ DictGet(sm, m.t1, None) = seed1 /\ DictGet(sm, m.t2, None) = seed2
    \/ DictGet(sm, m.t1, None) = seed2 /\ DictGet(sm, m.t2, None) = seed1

\* next((m for m in matchups if ...), None): index of the first match, 0 if none
FindMatchup(matchups, sm, seed1, seed2) ==
    LET hits == {i \in 1..Len(matchups) : MatchesSeedPair(matchups[i], sm, seed1, seed2)}
    IN  IF hits = {} THEN 0 ELSE CHOOSE i \in hits : \A j \in hits : i <= j

\* variant of Round1Node that never swaps the participants
Round1NodeUnswapped(matchup, sm, seed1, seed2) ==
    [team1_id |-> matchup.t1, team2_id |-> matchup.t2,
     team1_seed |-> seed1, team2_seed |-> seed2,
     winner_id |-> matchup.w, matchup_id |-> matchup.m]

\* the node appended for a round-1 record: team1 is the roster holding seed1
Round1Node(matchup, sm, seed1, seed2) ==
    IF DictGet(sm, matchup.t1, None) = seed1
    THEN [team1_id |-> matchup.t1, team2_id |-> matchup.t2,
          team1_seed |-> seed1, team2_seed |-> seed2,
          winner_id |-> matchup.w, matchup_id |-> matchup.m]
    ELSE [team1_id |-> matchup.t2, team2_id |-> matchup.t1,
          team1_seed |-> seed1, team2_seed |-> seed2,
          winner_id |-> matchup.w, matchup_id |-> matchup.m]

\* if winner_id: round_winners[round_num][matchup.get('m')] = winner_id
RecordWinner(winners, matchup) ==
    IF matchup.w # None THEN DictSet(winners, matchup.m, matchup.w) ELSE winners

\* variant of Round1Loop that appends a node for every record of a pair
\* (a filter where the code takes the first match)
RECURSIVE Round1LoopEveryMatch(_, _, _, _)
Round1LoopEveryMatch(pairs, matchups, sm, acc) ==
    IF pairs = <<>> THEN acc
    ELSE LET seed1 == Head(pairs)[1]
             seed2 == Head(pairs)[2]
             hits == SelectSeq(matchups, LAMBDA m : MatchesSeedPair(m, sm, seed1, seed2))
         IN  Round1LoopEveryMatch(Tail(pairs), matchups, sm,
                [nodes |-> acc.nodes \o
                            [i \in 1..Len(hits) |-> Round1Node(hits[i], sm, seed1, seed2)],
                 winners |-> IF hits = <<>> THEN acc.winners
                             ELSE RecordWinner(acc.winners, hits[1])])

\* the loop over expected_pairs; acc = [nodes, winners]
RECURSIVE Round1Loop(_, _, _, _)
Round1Loop(pairs, matchups, sm, acc) ==
    IF pairs = <<>> THEN acc
    ELSE LET seed1 == Head(pairs)[1]
             seed2 == Head(pairs)[2]
             idx == FindMatchup(matchups, sm, seed1, seed2)
         IN  IF idx = 0
             THEN Round1Loop(Tail(pairs), matchups, sm, acc)
             ELSE Round1Loop(Tail(pairs), matchups, sm,
                    [nodes |-> Append(acc.nodes, Round1Node(matchups[idx], sm, seed1, seed2)),
                     winners |-> RecordWinner(acc.winners, matchups[idx])])

\* variant of Admitted that is satisfied by one previous-round winner
AdmittedEither(matchup, prev_winners) ==
    matchup.t1 \in prev_winners \/ matchup.t2 \in prev_winners

\* if team1_id in prev_winners and team2_id in prev_winners
Admitted(matchup, prev_winners) ==
    matchup.t1 \in prev_winners /\ matchup.t2 \in prev_winners

\* the node appended for an admitted record of a later round
LaterNode(matchup, sm) ==
    [team1_id |-> matchup.t1, team2_id |-> matchup.t2,
     team1_seed |-> DictGet(sm, matchup.t1, 0), team2_seed |-> DictGet(sm, matchup.t2, 0),
     winner_id |-> matchup.w, matchup_id |-> matchup.m]

\* the loop over the records of a round > 1 (or < 1); acc = [nodes, winners]
RECURSIVE LaterRoundLoop(_, _, _, _)
LaterRoundLoop(matchups, sm, prev_winners, acc) ==
    IF matchups = <<>> THEN acc
    ELSE IF Admitted(Head(matchups), prev_winners)
         THEN LaterRoundLoop(Tail(matchups), sm, prev_winners,
                [nodes |-> Append(acc.nodes, LaterNode(Head(matchups), sm)),
                 winners |-> RecordWinner(acc.winners, Head(matchups))])
         ELSE LaterRoundLoop(Tail(matchups), sm, prev_winners, acc)

\* the loop over sorted_rounds; state = [round_winners, structured_bracket].
\* round_winners[round_num] exists only once a winner was recorded for it.
RECURSIVE RoundsLoop(_, _, _, _)
RoundsLoop(sorted_rounds, matchups_by_round, sm, state) ==
    IF sorted_rounds = <<>> THEN state
    ELSE LET round_num == Head(sorted_rounds)
             matchups == matchups_by_round[round_num]
             start == [nodes |-> <<>>,
                       winners |-> DictGet(state.round_winners, round_num, EmptyDict)]
             done == IF round_num = 1
                     THEN Round1Loop(expected_pairs, matchups, sm, start)
                     ELSE LaterRoundLoop(matchups, sm,
                            DictValues(DictGet(state.round_winners, round_num - 1, EmptyDict)),
                            start)
         IN  RoundsLoop(Tail(sorted_rounds), matchups_by_round, sm,
                [round_winners |->
                    IF DOMAIN done.winners = {} THEN state.round_winners
                    ELSE DictSet(state.round_winners, round_num, done.winners),
                 structured_bracket |->
                    DictSet(state.structured_bracket, round_num, done.nodes)])

\* variant of BracketState that goes on from the winners the previous call
\* recorded
BracketStateKeepWinners(matchups_by_round, sm) ==
    RoundsLoop(SortedKeys(DOMAIN matchups_by_round), matchups_by_round, sm,
               [round_winners |-> round_winners, structured_bracket |-> EmptyDict])

\* the two dicts of build_tournament_bracket when it returns: both are
\* created empty by the call
BracketState(matchups_by_round, sm) ==
    RoundsLoop(SortedKeys(DOMAIN matchups_by_round), matchups_by_round, sm,
               [round_winners |-> EmptyDict, structured_bracket |-> EmptyDict])

build_tournament_bracket(matchups_by_round, sm) ==
    IF DOMAIN matchups_by_round = {} THEN EmptyDict
    ELSE BracketState(matchups_by_round, sm).structured_bracket

(***************************************************************************)
(* Inputs of the seed assigner                                             *)
(***************************************************************************)
MaxRosters == 4     \* roster lists with full statistics have 0..MaxRosters entries
MaxLeague == 13     \* longest roster list (statistics restricted to wins)

WinsPool == {0, 1}
FptsPool == {100, 101}
DecimalPool == {0, 50}

StatsPool ==
    [wins : WinsPool, fpts : FptsPool, fpts_decimal : DecimalPool]

WinsOnlyPool ==
    [wins : {0, 1}, fpts : {100}, fpts_decimal : {0}]

\* roster ids are distinct; the i-th roster of the list has id RosterId(i)
RosterId(i) == i

MakeRosters(stats) ==
    [i \in 1..Len(stats) |->
        [roster_id |-> RosterId(i), wins |-> stats[i].wins,
         fpts |-> stats[i].fpts, fpts_decimal |-> stats[i].fpts_decimal]]

\* rs is a roster list of the seed assigner's input space: up to MaxRosters
\* rosters with any statistics of StatsPool, or a longer list (up to
\* MaxLeague) of rosters that differ in wins only
IsRosterList(rs) ==
    \/ \E k \in 0..MaxRosters : \E stats \in [1..k -> StatsPool] :
            rs = MakeRosters(stats)
    \/ \E k \in (MaxRosters + 1)..MaxLeague : \E stats \in [1..k -> WinsOnlyPool] :
            rs = MakeRosters(stats)

\* the valuation loop when no valuation is running
NoFrame ==
    [i |-> 1, players_list |-> <<>>, player_id |-> None, roster_id |-> None,
     week |-> None, side |-> 0, p |-> 0, week_num |-> 0,
     total_points_lineup |-> 0, total_points_bench |-> 0, total_starts |-> 0,
     team1_stats |-> [lineup |-> 0, bench |-> 0, starts |-> 0]]

NoTransactionData ==
    /\ transactions = <<>>
    /\ players = EmptyDict
    /\ matchup_data = EmptyDict
    /\ trades = <<>>
    /\ waivers = <<>>
    /\ trade_analyses = <<>>
    /\ valuable_pickups = <<>>
    /\ frame = NoFrame

NoCallState ==
    /\ call_feeds = <<>>
    /\ round_winners = EmptyDict
    /\ call_log = <<>>

NoSeasonState ==
    /\ NoCallState
    /\ first_place_season = None
    /\ available_seasons = <<>>
    /\ post_idx = 1
    /\ toilet_idx = 1
    /\ team_post_season_stats = EmptyDict
    /\ team_toilet_bowl_stats = EmptyDict
    /\ all_trades = <<>>
    /\ all_waivers = <<>>
    /\ all_add_drops = <<>>

NoBracketOutputs ==
    /\ structured_bracket = EmptyDict
    /\ champion = None
    /\ runner_up = None
    /\ toilet_bowl_matchups = <<>>
    /\ toilet_bowl_rounds_dict = EmptyDict
    /\ consolation_rounds_dict = EmptyDict
    /\ display_toilet_bowl_rounds = EmptyDict
    /\ toilet_bowl_bracket = EmptyDict
    /\ consolation_bracket = EmptyDict
    /\ toilet_bowl_champion = None
    /\ toilet_bowl_loser = None

InitSeeds ==
    /\ IsRosterList(rosters)
    /\ seed_map = EmptyDict
    /\ winners_bracket = <<>>
    /\ losers_bracket = <<>>
    /\ NoBracketOutputs
    /\ NoSeasonState
    /\ NoTransactionData
    /\ pc = "rosters"

\* seed_map = get_playoff_seeds(rosters, user_lookup)
GetPlayoffSeeds ==
    /\ pc = "rosters"
    /\ seed_map' = get_playoff_seeds(rosters)
    /\ pc' = "seeded"
    /\ UNCHANGED <<inputs, season_state, transaction_state, bracket_outputs, tier_outputs>>

\* the sort key of the history view's first place: (wins, fpts)
HistoryKeyGreater(a, b) ==
    \/ a.wins > b.wins
    \/ a.wins = b.wins /\ a.fpts > b.fpts

\* sorted(rosters, key=(wins, fpts), reverse=True)[0]: the sort is stable, so
\* the head is the first roster of the list that no roster beats
HistoryFirstPlace(rs) ==
    IF rs = <<>> THEN None
    ELSE LET top == CHOOSE i \in 1..Len(rs) :
                        /\ \A j \in 1..Len(rs) : ~ HistoryKeyGreater(rs[j], rs[i])
                        /\ \A j \in 1..(i - 1) : HistoryKeyGreater(rs[i], rs[j])
         IN  rs[top].roster_id

\* standings[0] of the league overview (sorted by wins, then points)
OverviewFirstPlace(rs) ==
    IF rs = <<>> THEN None
    ELSE SortStandings([i \in 1..Len(rs) |-> StandingsEntry(rs[i])])[1].roster_id

\* history view, header metric "First Place (Season)"
DisplayHistoryFirstPlace ==
    /\ pc = "seeded"
    /\ first_place_season' = HistoryFirstPlace(rosters)
    /\ pc' = "history_first_place"
    /\ UNCHANGED <<inputs, seed_map, transaction_state, bracket_outputs, tier_outputs,
                   records_state, call_state>>

\* league overview, first place of the regular season
DisplayOverviewFirstPlace ==
    /\ pc = "seeded"
    /\ first_place_season' = OverviewFirstPlace(rosters)
    /\ pc' = "overview_first_place"
    /\ UNCHANGED <<inputs, seed_map, transaction_state, bracket_outputs, tier_outputs,
                   records_state, call_state>>

NextSeeds ==
    \/ GetPlayoffSeeds
    \/ DisplayHistoryFirstPlace
    \/ DisplayOverviewFirstPlace

SpecSeeds == InitSeeds /\ [][NextSeeds]_vars

(***************************************************************************)
(* Inputs of the bracket resolver: a 12-team league and winners-bracket    *)
(* feeds over it                                                           *)
(***************************************************************************)
\* regular-season wins of the rosters 1..12 of the league (all different, so
\* the roster with w wins holds seed 13 - w)
LeagueWins == <<5, 12, 8, 1, 10, 3, 11, 6, 2, 9, 4, 7>>

League ==
    MakeRosters([i \in 1..Len(LeagueWins) |->
                    [wins |-> LeagueWins[i], fpts |-> 100, fpts_decimal |-> 0]])

LeagueSeeds == get_playoff_seeds(League)

\* the roster holding seed s in the league; None for s = 0
R(s) == IF s = 0 THEN None ELSE CHOOSE id \in DOMAIN LeagueSeeds : LeagueSeeds[id] = s

\* a record of round r between the rosters seeded s1 and s2; side tells the
\* winner: 1 = t1 won, 2 = t2 won, 0 = not played yet
Rec(r, s1, s2, side) ==
    [r |-> r, t1 |-> R(s1), t2 |-> R(s2),
     w |-> IF side = 1 THEN R(s1) ELSE IF side = 2 THEN R(s2) ELSE None,
     l |-> IF side = 1 THEN R(s2) ELSE IF side = 2 THEN R(s1) ELSE None,
     m |-> None]

\* matchup ids of a feed: "distinct" numbers the records 1, 2, ...;
\* "missing" leaves every record without 'm'
WithMatchupIds(feed, mode) ==
    [i \in 1..Len(feed) |->
        [feed[i] EXCEPT !.m = IF mode = "distinct" THEN i ELSE None]]

MaxRound1 == 4      \* round-1-only feeds hold 0..MaxRound1 records
MaxLater == 3       \* multi-round feeds hold 0..MaxLater records of rounds > 1

\* round-1 records: the four canonical pairs in both orientations, won by t1;
\* two unplayed games; one game between seeds that are no canonical pair
Round1Pool ==
    {Rec(1, p[1], p[2], 1) : p \in {<<1, 8>>, <<8, 1>>, <<4, 5>>, <<5, 4>>,
                                    <<2, 7>>, <<7, 2>>, <<3, 6>>, <<6, 3>>}}
    \cup {Rec(1, 1, 8, 0), Rec(1, 6, 3, 0), Rec(1, 1, 7, 1)}

\* a round-1-only feed: up to MaxRound1 numbered records of Round1Pool
IsRound1Feed(feed) ==
    \E k \in 0..MaxRound1 : \E f \in [1..k -> Round1Pool] :
        feed = WithMatchupIds(f, "distinct")

\* round 1 of the multi-round feeds: seeds 1, 5, 2 and 3 win
Round1Full == <<Rec(1, 1, 8, 1), Rec(1, 4, 5, 2), Rec(1, 7, 2, 2), Rec(1, 3, 6, 1)>>
Round1Half == <<Rec(1, 1, 8, 1), Rec(1, 4, 5, 2)>>
Round1Open == <<Rec(1, 1, 8, 1), Rec(1, 4, 5, 0)>>

\* records of rounds 2 and 3 among the rosters of the 1v8 / 4v5 half: between
\* the two round-1 winners (either one winning, or unplayed), between the two
\* round-1 losers (a placement game), and between a winner and a loser
LaterPool ==
    UNION {{Rec(r, 1, 5, 1), Rec(r, 5, 1, 1), Rec(r, 1, 5, 0),
            Rec(r, 8, 4, 1), Rec(r, 1, 8, 1)} : r \in {2, 3}}

\* a multi-round feed: one of the round-1 configurations followed by up to
\* MaxLater records of LaterPool, the records numbered or without matchup id
IsMultiRoundFeed(feed) ==
    \E k \in 0..MaxLater : \E later \in [1..k -> LaterPool] :
        \E r1 \in {Round1Full, Round1Half, Round1Open} :
            \E mode \in {"distinct", "missing"} :
                feed = WithMatchupIds(r1 \o later, mode)

InitLeague ==
    /\ rosters = League
    /\ seed_map = get_playoff_seeds(rosters)
    /\ NoBracketOutputs
    /\ NoSeasonState
    /\ NoTransactionData

InitBracket ==
    /\ InitLeague
    /\ IsRound1Feed(winners_bracket) \/ IsMultiRoundFeed(winners_bracket)
    /\ losers_bracket = <<>>
    /\ pc = "feed"

\* display_bracket(rounds_dict, ...) of the post-season view: the feed is
\* grouped by round and handed to build_tournament_bracket with the seed map
BuildTournamentBracket ==
    /\ pc = "feed"
    /\ structured_bracket' = build_tournament_bracket(GroupByRound(winners_bracket), seed_map)
    /\ pc' = "built"
    /\ UNCHANGED <<inputs, season_state, transaction_state, seed_map, champion, runner_up, tier_outputs>>

NextBracket == BuildTournamentBracket

SpecBracket == InitBracket /\ [][NextBracket]_vars

(***************************************************************************)
(* Champion and runner-up as derived from the flat winners bracket.        *)
(* The roster -> owner -> team-name lookups are injective within a season, *)
(* so a team is named by its roster id; a roster id that is not in the     *)
(* roster list leaves the value untouched.                                 *)
(***************************************************************************)
\* max((m.get('r', 0) for m in bracket), default=0)
MaxRoundOf(bracket) ==
    IF bracket = <<>> THEN 0
    ELSE CHOOSE x \in Range([i \in 1..Len(bracket) |-> bracket[i].r]) :
            \A i \in 1..Len(bracket) : bracket[i].r <= x

\* [m for m in bracket if m.get('r') == max_round]
FinalMatchups(bracket) ==
    SelectSeq(bracket, LAMBDA m : m.r = MaxRoundOf(bracket))

\* next((r for r in rosters if r.get('roster_id') == roster_id), None) is not None
RosterFound(rs, roster_id) ==
    \E i \in 1..Len(rs) : rs[i].roster_id = roster_id

\* history view: the first final-round record with a winner, else the first
HistoryChampion(bracket, rs) ==
    LET final_matchups == FinalMatchups(bracket)
        with_w == SelectSeq(final_matchups, LAMBDA m : m.w # None)
    IN  IF bracket = <<>> \/ MaxRoundOf(bracket) <= 0 \/ final_matchups = <<>>
        THEN [champion |-> None, runner_up |-> None]
        ELSE LET final_matchup == IF with_w # <<>> THEN with_w[1] ELSE final_matchups[1]
             IN  [champion |-> IF final_matchup.w # None /\ RosterFound(rs, final_matchup.w)
                               THEN final_matchup.w ELSE None,
                  runner_up |-> IF final_matchup.l # None /\ RosterFound(rs, final_matchup.l)
                                THEN final_matchup.l ELSE None]

\* league overview: the first final-round record
OverviewChampion(bracket, rs) ==
    LET final_matchups == FinalMatchups(bracket)
    IN  IF bracket = <<>> \/ MaxRoundOf(bracket) <= 0 \/ final_matchups = <<>>
        THEN [champion |-> None, runner_up |-> None]
        ELSE LET final_matchup == final_matchups[1]
             IN  [champion |-> IF final_matchup.w # None /\ RosterFound(rs, final_matchup.w)
                               THEN final_matchup.w ELSE None,
                  runner_up |-> IF final_matchup.l # None /\ RosterFound(rs, final_matchup.l)
                                THEN final_matchup.l ELSE None]

\* post-season records book: the loop over all final-round records, each
\* record with a winner (loser) overwriting champion (runner_up)
RECURSIVE PostSeasonLoop(_, _, _)
PostSeasonLoop(matchups, rs, acc) ==
    IF matchups = <<>> THEN acc
    ELSE LET matchup == Head(matchups)
         IN  PostSeasonLoop(Tail(matchups), rs,
                [champion |-> IF matchup.w # None /\ RosterFound(rs, matchup.w)
                              THEN matchup.w ELSE acc.champion,
                 runner_up |-> IF matchup.l # None /\ RosterFound(rs, matchup.l)
                               THEN matchup.l ELSE acc.runner_up])

PostSeasonChampion(bracket, rs) ==
    IF bracket = <<>> THEN [champion |-> None, runner_up |-> None]
    ELSE PostSeasonLoop(FinalMatchups(bracket), rs, [champion |-> None, runner_up |-> None])

\* team breakdown: the same loop over all final-round records
TeamBreakdownChampion(bracket, rs) ==
    IF bracket = <<>> THEN [champion |-> None, runner_up |-> None]
    ELSE PostSeasonLoop(FinalMatchups(bracket), rs, [champion |-> None, runner_up |-> None])

InitChampion ==
    /\ InitLeague
    /\ IsMultiRoundFeed(winners_bracket)
    /\ losers_bracket = <<>>
    /\ pc = "feed"

ReportChampion(site, result) ==
    /\ pc = "feed"
    /\ champion' = result.champion
    /\ runner_up' = result.runner_up
    /\ pc' = site
    /\ UNCHANGED <<inputs, season_state, transaction_state, seed_map, structured_bracket, tier_outputs>>

DisplayHistoryChampion ==
    ReportChampion("history_view", HistoryChampion(winners_bracket, rosters))

DisplayOverviewChampion ==
    ReportChampion("overview", OverviewChampion(winners_bracket, rosters))

DisplayPostSeasonChampion ==
    ReportChampion("records_book_post_season", PostSeasonChampion(winners_bracket, rosters))

DisplayTeamBreakdownChampion ==
    ReportChampion("team_breakdown", TeamBreakdownChampion(winners_bracket, rosters))

NextChampion ==
    \/ DisplayHistoryChampion
    \/ DisplayOverviewChampion
    \/ DisplayPostSeasonChampion
    \/ DisplayTeamBreakdownChampion

SpecChampion == InitChampion /\ [][NextChampion]_vars

(***************************************************************************)
(* Consolation feed: the lower tier (toilet bowl, seeds 9..12) and the     *)
(* middle tier (consolation, seeds 5..8)                                   *)
(***************************************************************************)
\* variant of BothSeedsIn that is satisfied by one participant in the range
EitherSeedIn(matchup, sm, lo, hi) ==
    \/ lo <= DictGet(sm, matchup.t1, 0) /\ DictGet(sm, matchup.t1, 0) <= hi
    \/ lo <= DictGet(sm, matchup.t2, 0) /\ DictGet(sm, matchup.t2, 0) <= hi

\* variant of BothSeedsIn whose range reaches one seed further down
BothSeedsInWider(matchup, sm, lo, hi) ==
    /\ lo <= DictGet(sm, matchup.t1, 0) /\ DictGet(sm, matchup.t1, 0) <= hi + 1
    /\ lo <= DictGet(sm, matchup.t2, 0) /\ DictGet(sm, matchup.t2, 0) <= hi + 1

\* (lo <= team1_seed <= hi) and (lo <= team2_seed <= hi), the seeds read with
\* seed_map.get(id, 0)
BothSeedsIn(matchup, sm, lo, hi) ==
    /\ lo <= DictGet(sm, matchup.t1, 0) /\ DictGet(sm, matchup.t1, 0) <= hi
    /\ lo <= DictGet(sm, matchup.t2, 0) /\ DictGet(sm, matchup.t2, 0) <= hi

\* the records of a list that go to the lower tier
ToiletBowlFilter(matchups, sm) ==
    SelectSeq(matchups, LAMBDA m : BothSeedsIn(m, sm, 9, 12))

\* the records of a list that go to the middle tier
ConsolationFilter(matchups, sm) ==
    SelectSeq(matchups, LAMBDA m : BothSeedsIn(m, sm, 5, 8))

\* round1_winners / round1_losers of a list of round-1 records
Round1Winners(round1) == {round1[i].w : i \in 1..Len(round1)} \ {None}

Round1Losers(round1) == {round1[i].l : i \in 1..Len(round1)} \ {None}

\* Order Round 1 matchups: 9v12, 10v11 (the first record of each pair)
OrderedRound1(matchups, sm) ==
    LET first == FindMatchup(matchups, sm, 9, 12)
        second == FindMatchup(matchups, sm, 10, 11)
    IN  (IF first = 0 THEN <<>> ELSE <<matchups[first]>>)
        \o (IF second = 0 THEN <<>> ELSE <<matchups[second]>>)

\* variant of ChampionshipMatchups that is satisfied by one round-1 winner
ChampionshipMatchupsEither(matchups, round1) ==
    SelectSeq(matchups, LAMBDA m : m.t1 \in Round1Winners(round1)
                                   \/ m.t2 \in Round1Winners(round1))

\* championship_matchups: the round-2 records between two round-1 winners
ChampionshipMatchups(matchups, round1) ==
    SelectSeq(matchups, LAMBDA m : m.t1 \in Round1Winners(round1)
                                   /\ m.t2 \in Round1Winners(round1))

\* losers_matchups: the round-2 records between two round-1 losers (the elif
\* branch: records that are not championship records)
LosersMatchups(matchups, round1) ==
    SelectSeq(matchups, LAMBDA m :
            /\ ~ (m.t1 \in Round1Winners(round1) /\ m.t2 \in Round1Winners(round1))
            /\ m.t1 \in Round1Losers(round1)
            /\ m.t2 \in Round1Losers(round1))

\* round 2 of the lower tier: the games between two round-1 winners, then the
\* games between two round-1 losers
SplitRound2(matchups, round1) ==
    ChampionshipMatchups(matchups, round1) \o LosersMatchups(matchups, round1)

\* the loop over the rounds of the feed that builds toilet_bowl_rounds_dict
RECURSIVE ToiletBowlRoundsLoop(_, _, _, _)
ToiletBowlRoundsLoop(sorted_rounds, all_losers_rounds, sm, rounds_dict) ==
    IF sorted_rounds = <<>> THEN rounds_dict
    ELSE LET round_num == Head(sorted_rounds)
             matchups == ToiletBowlFilter(all_losers_rounds[round_num], sm)
             ordered == OrderedRound1(matchups, sm)
             round2 == SplitRound2(matchups, DictGet(rounds_dict, 1, <<>>))
             next_dict ==
                IF matchups = <<>> THEN rounds_dict
                ELSE IF round_num = 1
                     THEN DictSet(rounds_dict, 1, IF ordered # <<>> THEN ordered ELSE matchups)
                ELSE IF round_num = 2
                     THEN (IF round2 # <<>> THEN DictSet(rounds_dict, 2, round2)
                           ELSE rounds_dict)
                ELSE DictSet(rounds_dict, round_num, matchups)
         IN  ToiletBowlRoundsLoop(Tail(sorted_rounds), all_losers_rounds, sm, next_dict)

ToiletBowlRoundsDict(bracket, sm) ==
    IF bracket = <<>> THEN EmptyDict
    ELSE ToiletBowlRoundsLoop(SortedKeys(DOMAIN GroupByRound(bracket)),
                              GroupByRound(bracket), sm, EmptyDict)

\* the loop over the rounds of toilet_bowl_rounds_dict that builds
\* display_toilet_bowl_rounds: round 2 is shown as round 2 (championship) and
\* round 3 (losers game); every other round keeps its number
RECURSIVE DisplayToiletBowlLoop(_, _, _)
DisplayToiletBowlLoop(sorted_rounds, rounds_dict, display) ==
    IF sorted_rounds = <<>> THEN display
    ELSE LET round_num == Head(sorted_rounds)
             round1 == DictGet(rounds_dict, 1, <<>>)
             championship_matchups == ChampionshipMatchups(rounds_dict[round_num], round1)
             losers_matchups == LosersMatchups(rounds_dict[round_num], round1)
             with_championship ==
                IF championship_matchups # <<>>
                THEN DictSet(display, 2, championship_matchups) ELSE display
             next_display ==
                IF round_num = 2
                THEN (IF losers_matchups # <<>>
                      THEN DictSet(with_championship, 3, losers_matchups)
                      ELSE with_championship)
                ELSE DictSet(display, round_num, rounds_dict[round_num])
         IN  DisplayToiletBowlLoop(Tail(sorted_rounds), rounds_dict, next_display)

DisplayToiletBowlRounds(rounds_dict) ==
    DisplayToiletBowlLoop(SortedKeys(DOMAIN rounds_dict), rounds_dict, EmptyDict)

\* the loop over the rounds of the feed that builds consolation_rounds_dict
RECURSIVE ConsolationRoundsLoop(_, _, _, _)
ConsolationRoundsLoop(sorted_rounds, all_losers_rounds, sm, rounds_dict) ==
    IF sorted_rounds = <<>> THEN rounds_dict
    ELSE LET round_num == Head(sorted_rounds)
             matchups == ConsolationFilter(all_losers_rounds[round_num], sm)
         IN  ConsolationRoundsLoop(Tail(sorted_rounds), all_losers_rounds, sm,
                IF matchups = <<>> THEN rounds_dict
                ELSE DictSet(rounds_dict, round_num, matchups))

ConsolationRoundsDict(bracket, sm) ==
    IF bracket = <<>> THEN EmptyDict
    ELSE ConsolationRoundsLoop(SortedKeys(DOMAIN GroupByRound(bracket)),
                               GroupByRound(bracket), sm, EmptyDict)

\* the loop over the round-2 records of the lower tier that names the tier
\* champion and the last-place finisher; acc = [champion, loser]
RECURSIVE ToiletBowlRound2Loop(_, _, _, _)
ToiletBowlRound2Loop(round2, round1, rs, acc) ==
    IF round2 = <<>> THEN acc
    ELSE LET matchup == Head(round2)
             winners_game == /\ matchup.t1 \in Round1Winners(round1)
                             /\ matchup.t2 \in Round1Winners(round1)
             losers_game == /\ matchup.t1 \in Round1Losers(round1)
                            /\ matchup.t2 \in Round1Losers(round1)
         IN  ToiletBowlRound2Loop(Tail(round2), round1, rs,
                [champion |-> IF winners_game /\ matchup.w # None /\ RosterFound(rs, matchup.w)
                              THEN matchup.w ELSE acc.champion,
                 loser |-> IF losers_game /\ matchup.l # None /\ RosterFound(rs, matchup.l)
                           THEN matchup.l ELSE acc.loser])

\* variant of ToiletBowlResult that builds the round-1 sets from the records
\* of every round
ToiletBowlResultAllRounds(matchups, rs) ==
    ToiletBowlRound2Loop(SelectSeq(matchups, LAMBDA m : m.r = 2), matchups,
                         rs, [champion |-> None, loser |-> None])

\* tier champion and last-place finisher from the flat lower-tier list
ToiletBowlResult(matchups, rs) ==
    ToiletBowlRound2Loop(SelectSeq(matchups, LAMBDA m : m.r = 2),
                         SelectSeq(matchups, LAMBDA m : m.r = 1),
                         rs, [champion |-> None, loser |-> None])

(***************************************************************************)
(* Inputs of the consolation partition                                     *)
(***************************************************************************)
\* a 10-team league: the league without its two last-ranked rosters
League10 == SelectSeq(League, LAMBDA roster : roster.wins > 2)

MaxLosers == 3      \* free consolation feeds hold 0..MaxLosers records
MaxRound2 == 3      \* tier feeds hold 0..MaxRound2 records of round 2

\* consolation-feed records: lower tier, middle tier, one participant of each
\* range, a participant seeded above both ranges, a participant not yet known
LosersPool ==
    {Rec(1, 9, 12, 1), Rec(1, 11, 10, 1), Rec(2, 9, 11, 1), Rec(2, 12, 10, 2),
     Rec(1, 5, 8, 1), Rec(1, 7, 6, 2), Rec(2, 5, 6, 0),
     Rec(1, 8, 9, 1), Rec(2, 12, 5, 0),
     Rec(1, 4, 9, 1), Rec(2, 5, 4, 2),
     Rec(2, 9, 0, 0)}

\* round 1 of the lower-tier feeds: seeds 9 and 11 win; the same games in the
\* other order; the 10v11 game not played yet
LowerRound1 ==
    {<<Rec(1, 9, 12, 1), Rec(1, 11, 10, 1)>>,
     <<Rec(1, 10, 11, 2), Rec(1, 12, 9, 2)>>,
     <<Rec(1, 9, 12, 1), Rec(1, 10, 11, 0)>>}

\* round 1 of the lower tier with other pairings: no canonical pair (all
\* records are kept), and the 9v12 game followed by a second game of seed 9
LowerRound1Other ==
    {<<Rec(1, 9, 10, 1), Rec(1, 12, 11, 2)>>,
     <<Rec(1, 9, 12, 1), Rec(1, 9, 11, 2)>>}

\* round-2 records of the lower tier: between the two winners, between the
\* two losers (played or not), between a winner and a loser, a round-1 rematch
LowerRound2Pool ==
    {Rec(2, 9, 11, 1), Rec(2, 11, 9, 1), Rec(2, 12, 10, 2), Rec(2, 10, 12, 0),
     Rec(2, 9, 10, 1), Rec(2, 9, 12, 1)}

\* a free consolation feed: up to MaxLosers numbered records of LosersPool
IsFreeLosersFeed(feed) ==
    \E k \in 0..MaxLosers : \E f \in [1..k -> LosersPool] :
        feed = WithMatchupIds(f, "distinct")

\* a lower-tier record of a third round
LowerRound3 == <<Rec(3, 11, 9, 1)>>

\* a lower-tier feed: a round 1 of the lower tier followed by up to MaxRound2
\* round-2 records and possibly by a round-3 record
IsLowerTierFeed(feed) ==
    \E r1 \in LowerRound1 \cup LowerRound1Other :
        \E k \in 0..MaxRound2 : \E r2 \in [1..k -> LowerRound2Pool] :
            \E r3 \in {<<>>, LowerRound3} :
                feed = WithMatchupIds(r1 \o r2 \o r3, "distinct")

\* round 1 of the middle-tier feeds: seeds 5 and 6 win
MiddleRound1 == <<Rec(1, 5, 8, 1), Rec(1, 7, 6, 2)>>

\* round-2 records of the middle tier: between the two winners, between the
\* two losers, between a winner and a loser (not played yet)
MiddleRound2Pool ==
    {Rec(2, 5, 6, 1), Rec(2, 8, 7, 1), Rec(2, 5, 7, 0)}

\* a middle-tier feed: round 1 of the middle tier, or no round 1, followed by
\* up to MaxRound2 round-2 records
IsMiddleTierFeed(feed) ==
    \E r1 \in {MiddleRound1, <<>>} :
        \E k \in 0..MaxRound2 : \E r2 \in [1..k -> MiddleRound2Pool] :
            feed = WithMatchupIds(r1 \o r2, "distinct")

\* the consolation feed comes with the winners bracket of the season; a
\* season whose winners bracket is still empty is covered for the
\* lower-tier feeds
InitTiers ==
    /\ rosters \in {League, League10}
    /\ seed_map = get_playoff_seeds(rosters)
    /\ NoBracketOutputs
    /\ NoSeasonState
    /\ NoTransactionData
    /\ \/ /\ winners_bracket = WithMatchupIds(Round1Full, "distinct")
          /\ \/ IsFreeLosersFeed(losers_bracket)
             \/ IsLowerTierFeed(losers_bracket)
             \/ IsMiddleTierFeed(losers_bracket)
       \/ /\ winners_bracket = <<>>
          /\ IsLowerTierFeed(losers_bracket)
    /\ pc = "feed"

\* history view, game type "Consolation": the toilet bowl bracket and the
\* consolation bracket are built from the same feed and seed map
\* (display_bracket recomputes the seed map from the same rosters)
DisplayConsolationView ==
    /\ pc = "feed"
    /\ toilet_bowl_rounds_dict' = ToiletBowlRoundsDict(losers_bracket, seed_map)
    /\ display_toilet_bowl_rounds' =
            DisplayToiletBowlRounds(ToiletBowlRoundsDict(losers_bracket, seed_map))
    /\ toilet_bowl_bracket' =
            build_tournament_bracket(
                DisplayToiletBowlRounds(ToiletBowlRoundsDict(losers_bracket, seed_map)),
                get_playoff_seeds(rosters))
    /\ consolation_rounds_dict' = ConsolationRoundsDict(losers_bracket, seed_map)
    /\ consolation_bracket' =
            build_tournament_bracket(ConsolationRoundsDict(losers_bracket, seed_map),
                                     get_playoff_seeds(rosters))
    /\ pc' = "consolation_view"
    /\ UNCHANGED <<inputs, season_state, transaction_state, seed_map, bracket_outputs, toilet_bowl_matchups,
                   toilet_bowl_champion, toilet_bowl_loser>>

\* history view, header metrics: toilet bowl champion and loser (computed
\* only inside the branch taken for a non-empty winners bracket)
DisplayHistoryToiletBowl ==
    /\ pc = "feed"
    /\ IF winners_bracket # <<>> /\ losers_bracket # <<>>
       THEN LET matchups == ToiletBowlFilter(losers_bracket, seed_map)
            IN  /\ toilet_bowl_matchups' = matchups
                /\ toilet_bowl_champion' = ToiletBowlResult(matchups, rosters).champion
                /\ toilet_bowl_loser' = ToiletBowlResult(matchups, rosters).loser
       ELSE UNCHANGED <<toilet_bowl_matchups, toilet_bowl_champion, toilet_bowl_loser>>
    /\ pc' = "history_toilet_bowl"
    /\ UNCHANGED <<inputs, season_state, transaction_state, seed_map, bracket_outputs,
                   toilet_bowl_rounds_dict, consolation_rounds_dict,
                   display_toilet_bowl_rounds, toilet_bowl_bracket, consolation_bracket>>

\* toilet bowl records book: one season of the loop (a season without
\* lower-tier records is skipped)
DisplayToiletBowlRecords ==
    /\ pc = "feed"
    /\ IF losers_bracket # <<>> /\ ToiletBowlFilter(losers_bracket, seed_map) # <<>>
       THEN LET matchups == ToiletBowlFilter(losers_bracket, seed_map)
            IN  /\ toilet_bowl_matchups' = matchups
                /\ toilet_bowl_champion' = ToiletBowlResult(matchups, rosters).champion
                /\ toilet_bowl_loser' = ToiletBowlResult(matchups, rosters).loser
       ELSE UNCHANGED <<toilet_bowl_matchups, toilet_bowl_champion, toilet_bowl_loser>>
    /\ pc' = "records_book_toilet_bowl"
    /\ UNCHANGED <<inputs, season_state, transaction_state, seed_map, bracket_outputs,
                   toilet_bowl_rounds_dict, consolation_rounds_dict,
                   display_toilet_bowl_rounds, toilet_bowl_bracket, consolation_bracket>>

NextTiers ==
    \/ DisplayConsolationView
    \/ DisplayHistoryToiletBowl
    \/ DisplayToiletBowlRecords

SpecTiers == InitTiers /\ [][NextTiers]_vars

(***************************************************************************)
(* Claims about the championship bracket (checked under SpecBracket)       *)
(***************************************************************************)
Rounds == DOMAIN structured_bracket

\* the nodes output for round k (none when the round is not in the output)
NodesOf(k) == IF k \in Rounds THEN Range(structured_bracket[k]) ELSE {}

\* the records of round k in the feed, in feed order
RecordsOf(k) == SelectSeq(winners_bracket, LAMBDA m : m.r = k)

\* winner_ids of the nodes output for round k
WinnersOf(k) == {n.winner_id : n \in NodesOf(k)} \ {None}

\* rosters that are the losing participant of a node output for round k
LosersOf(k) ==
    UNION {({n.team1_id, n.team2_id} \ {n.winner_id, None}) :
            n \in {x \in NodesOf(k) : x.winner_id # None}}

ParticipantsOf(k) == UNION {{n.team1_id, n.team2_id} : n \in NodesOf(k)} \ {None}

\* C1: a roster that is the losing participant of a node of round k is not a
\* participant of any node of a later round.
C1_LosersNeverAdvance ==
    pc = "built" =>
        \A k, j \in Rounds : k < j => LosersOf(k) \cap ParticipantsOf(j) = {}

\* C2: a node of a round k > 1 has both participants among the winner_ids of
\* the nodes output for round k-1; the nodes of the round are records of the
\* round in feed order, and when the matchup ids of the feed are all different
\* they are exactly the records passing that test (a failing record does not
\* stop the records behind it).
FeedIdsDistinct ==
    \A i, j \in 1..Len(winners_bracket) :
        i # j => winners_bracket[i].m # winners_bracket[j].m

SameGame(node, record) ==
    /\ node.team1_id = record.t1
    /\ node.team2_id = record.t2
    /\ node.winner_id = record.w
    /\ node.matchup_id = record.m

C2_OnlyPreviousWinnersAdmitted ==
    pc = "built" =>
        \A k \in Rounds : k > 1 =>
            LET nodes == structured_bracket[k]
                passing == SelectSeq(RecordsOf(k),
                              LAMBDA m : m.t1 \in WinnersOf(k - 1) /\ m.t2 \in WinnersOf(k - 1))
            IN  /\ \A i \in 1..Len(nodes) :
                        /\ nodes[i].team1_id \in WinnersOf(k - 1)
                        /\ nodes[i].team2_id \in WinnersOf(k - 1)
                /\ Len(nodes) <= Len(passing)
                /\ FeedIdsDistinct =>
                        /\ Len(nodes) = Len(passing)
                        /\ \A i \in 1..Len(nodes) : SameGame(nodes[i], passing[i])

\* a failing round-2 record is followed by a passing one, which is output
C2_Witness ==
    /\ pc = "built"
    /\ 2 \in Rounds
    /\ Len(RecordsOf(2)) >= 2
    /\ ~ (RecordsOf(2)[1].t1 \in WinnersOf(1) /\ RecordsOf(2)[1].t2 \in WinnersOf(1))
    /\ Len(structured_bracket[2]) >= 1
    /\ SameGame(structured_bracket[2][1], RecordsOf(2)[2])

\* seed of a roster in the seed map, None when it has none
SeedOf(id) == IF id \in DOMAIN seed_map THEN seed_map[id] ELSE None

CanonicalPairs == <<<<1, 8>>, <<4, 5>>, <<2, 7>>, <<3, 6>>>>

\* the records of round 1 between the two seeds of a pair, in feed order
RecordsOfPair(pair) ==
    SelectSeq(RecordsOf(1),
              LAMBDA m : {SeedOf(m.t1), SeedOf(m.t2)} = {pair[1], pair[2]})

AllPairsPresent == \A i \in 1..4 : RecordsOfPair(CanonicalPairs[i]) # <<>>

\* C3: when round 1 holds a record for each of 1v8, 4v5, 2v7 and 3v6, the
\* output has exactly four round-1 nodes in that order, each with the roster
\* of the lower seed number as team1_id and the other as team2_id.
C3_CanonicalRound1 ==
    (pc = "built" /\ 1 \in Rounds /\ AllPairsPresent) =>
        /\ Len(structured_bracket[1]) = 4
        /\ \A i \in 1..4 :
            LET node == structured_bracket[1][i]
            IN  /\ SeedOf(node.team1_id) = CanonicalPairs[i][1]
                /\ SeedOf(node.team2_id) = CanonicalPairs[i][2]
                /\ node.team1_seed = CanonicalPairs[i][1]
                /\ node.team2_seed = CanonicalPairs[i][2]

\* all four pairs are present, the feed starts with another pair than 1v8 and
\* holds a record whose t1 has the higher seed number
C3_Witness ==
    /\ pc = "built"
    /\ 1 \in Rounds
    /\ AllPairsPresent
    /\ {SeedOf(RecordsOf(1)[1].t1), SeedOf(RecordsOf(1)[1].t2)} # {1, 8}
    /\ \E i \in 1..Len(RecordsOf(1)) :
            SeedOf(RecordsOf(1)[i].t1) > SeedOf(RecordsOf(1)[i].t2)
    /\ Len(structured_bracket[1]) = 4

\* the canonical pairs that have a record in round 1, in canonical order
PresentPairs == SelectSeq(CanonicalPairs, LAMBDA pair : RecordsOfPair(pair) # <<>>)

C8_Round1NodesDisjoint ==
    (pc = "built" /\ 1 \in Rounds) =>
        \A i, j \in 1..Len(structured_bracket[1]) : i # j =>
            LET a == structured_bracket[1][i]
                b == structured_bracket[1][j]
            IN  /\ ({a.team1_id, a.team2_id} \ {None}) \cap {b.team1_id, b.team2_id} = {}
                /\ <<a.team1_seed, a.team2_seed>> # <<b.team1_seed, b.team2_seed>>

\* the feed holds two records for one pair and records for another pair
C8_Witness ==
    /\ pc = "built"
    /\ 1 \in Rounds
    /\ \E i \in 1..4 : Len(RecordsOfPair(CanonicalPairs[i])) >= 2
    /\ Len(structured_bracket[1]) >= 2

(***************************************************************************)
(* Claims about the consolation partition (checked under SpecTiers)        *)
(***************************************************************************)
\* both participants of a record hold a seed of the range
SeedsWithin(m, range) == SeedOf(m.t1) \in range /\ SeedOf(m.t2) \in range

\* all records held by a round -> list dict
RecordsIn(rounds_dict) == UNION {Range(rounds_dict[k]) : k \in DOMAIN rounds_dict}

\* the flat lower-tier list was computed (the history view computes it only
\* next to a winners bracket)
FlatTierComputed ==
    \/ pc = "records_book_toilet_bowl"
    \/ pc = "history_toilet_bowl" /\ winners_bracket # <<>>

\* C9: a record of the consolation feed is in the lower-tier list exactly when
\* both participants have seeds in 9..12 and in the middle-tier rounds exactly
\* when both have seeds in 5..8; the lower-tier rounds shown by the history
\* view hold only records with both seeds in 9..12; a record with one
\* participant of each range, or with an unseeded participant, is in neither.
C9_TierBySeedRange ==
    \A i \in 1..Len(losers_bracket) :
        LET m == losers_bracket[i]
        IN  /\ FlatTierComputed =>
                (m \in Range(toilet_bowl_matchups) <=> SeedsWithin(m, 9..12))
            /\ pc = "consolation_view" =>
                /\ m \in RecordsIn(consolation_rounds_dict) <=> SeedsWithin(m, 5..8)
                /\ m \in RecordsIn(toilet_bowl_rounds_dict) => SeedsWithin(m, 9..12)
                /\ (m \in RecordsIn(consolation_rounds_dict)
                        => m \in Range(consolation_rounds_dict[m.r]))

\* the feed holds a lower-tier record, a record with one participant of each
\* range and a record with an unseeded participant; only the first is placed
C9_Witness ==
    /\ pc = "records_book_toilet_bowl"
    /\ toilet_bowl_matchups # <<>>
    /\ \E i \in 1..Len(losers_bracket) :
            /\ SeedOf(losers_bracket[i].t1) \in 5..8
            /\ SeedOf(losers_bracket[i].t2) \in 9..12
            /\ losers_bracket[i] \notin Range(toilet_bowl_matchups)
    /\ \E i \in 1..Len(losers_bracket) :
            /\ SeedOf(losers_bracket[i].t2) = None
            /\ losers_bracket[i] \notin Range(toilet_bowl_matchups)

RostersIn(records) == UNION {{m.t1, m.t2} : m \in records} \ {None}

\* C10: no roster takes part in a lower-tier matchup and in a middle-tier
\* matchup of the same feed.
C10_TiersDisjoint ==
    pc = "consolation_view" =>
        /\ RostersIn(RecordsIn(toilet_bowl_rounds_dict))
             \cap RostersIn(RecordsIn(consolation_rounds_dict)) = {}
        /\ RostersIn(Range(ToiletBowlFilter(losers_bracket, seed_map)))
             \cap RostersIn(RecordsIn(consolation_rounds_dict)) = {}

\* both tiers hold records and the feed has a record between a middle-tier
\* roster and a lower-tier roster
C10_Witness ==
    /\ pc = "consolation_view"
    /\ RecordsIn(toilet_bowl_rounds_dict) # {}
    /\ RecordsIn(consolation_rounds_dict) # {}
    /\ \E i \in 1..Len(losers_bracket) :
            /\ SeedOf(losers_bracket[i].t1) \in 5..8
            /\ SeedOf(losers_bracket[i].t2) \in 9..12

\* the records of round k of the feed that belong to a tier, in feed order
TierRecordsOf(k, range) ==
    SelectSeq(losers_bracket, LAMBDA m : m.r = k /\ SeedsWithin(m, range))

\* the records a round -> list dict holds for round k
Shown(rounds_dict, k) == IF k \in DOMAIN rounds_dict THEN rounds_dict[k] ELSE <<>>

BothIn(m, S) == m.t1 \in S /\ m.t2 \in S

\* winners and losers of the lower-tier round 1 the consolation view shows
ShownWinners ==
    {Shown(toilet_bowl_rounds_dict, 1)[i].w :
        i \in 1..Len(Shown(toilet_bowl_rounds_dict, 1))} \ {None}

ShownLosers ==
    {Shown(toilet_bowl_rounds_dict, 1)[i].l :
        i \in 1..Len(Shown(toilet_bowl_rounds_dict, 1))} \ {None}

\* lower-tier round-2 records between two round-1 winners / two round-1 losers
TierChampionshipGames ==
    SelectSeq(TierRecordsOf(2, 9..12), LAMBDA m : BothIn(m, ShownWinners))

LastPlaceGames ==
    SelectSeq(TierRecordsOf(2, 9..12), LAMBDA m : BothIn(m, ShownLosers))

FeedWinners ==
    {TierRecordsOf(1, 9..12)[i].w : i \in 1..Len(TierRecordsOf(1, 9..12))} \ {None}

FeedLosers ==
    {TierRecordsOf(1, 9..12)[i].l : i \in 1..Len(TierRecordsOf(1, 9..12))} \ {None}

\* the lower-tier round-2 records between two round-1 winners that have a
\* winner, and those between two round-1 losers that have a loser
DecidedChampionships ==
    {m \in Range(TierRecordsOf(2, 9..12)) : BothIn(m, FeedWinners) /\ m.w # None}

DecidedLastPlaceGames ==
    {m \in Range(TierRecordsOf(2, 9..12)) : BothIn(m, FeedLosers) /\ m.l # None}

\* C12: the reported tier champion is the winner of a lower-tier round-2
\* record between two rosters that won a lower-tier round-1 game, the reported
\* last-place finisher the loser of a lower-tier round-2 record between two
\* rosters that lost one; each value is unresolved exactly when the feed has
\* no such record with a winner (loser), whatever other records it holds, and
\* both are unresolved when the derivation is not run.
C12_TierChampionAndLoser ==
    pc \in {"history_toilet_bowl", "records_book_toilet_bowl"} =>
        IF FlatTierComputed
        THEN /\ toilet_bowl_champion # None <=> DecidedChampionships # {}
             /\ toilet_bowl_champion # None =>
                    \E m \in DecidedChampionships : m.w = toilet_bowl_champion
             /\ toilet_bowl_loser # None <=> DecidedLastPlaceGames # {}
             /\ toilet_bowl_loser # None =>
                    \E m \in DecidedLastPlaceGames : m.l = toilet_bowl_loser
        ELSE toilet_bowl_champion = None /\ toilet_bowl_loser = None

\* the tier champion is named, the game between the two round-1 losers is not
\* played yet, and a played round-2 game between a round-1 winner and a
\* round-1 loser does not supply the last-place finisher
C12_Witness ==
    /\ pc = "history_toilet_bowl"
    /\ toilet_bowl_champion # None
    /\ toilet_bowl_loser = None
    /\ \E m \in Range(TierRecordsOf(2, 9..12)) : BothIn(m, FeedLosers) /\ m.l = None
    /\ \E m \in Range(TierRecordsOf(2, 9..12)) :
            m.t1 \in FeedWinners /\ m.t2 \in FeedLosers /\ m.l # None

\* the seeds of the two participants of a record
SeedPairOf(m) == {SeedOf(m.t1), SeedOf(m.t2)}

\* in the round 1 the view lists for the lower tier, no 10v11 record stands
\* before a 9v12 record
CanonicalRound1Order ==
    \A i, j \in 1..Len(Shown(toilet_bowl_rounds_dict, 1)) :
        (/\ SeedPairOf(toilet_bowl_rounds_dict[1][i]) = {10, 11}
         /\ SeedPairOf(toilet_bowl_rounds_dict[1][j]) = {9, 12}) => j < i

\* round 2 of the lower tier is split by the winners and losers of all
\* lower-tier round-1 records of the feed
SplitByAllRound1Records ==
    Shown(toilet_bowl_rounds_dict, 2)
        = SelectSeq(TierRecordsOf(2, 9..12), LAMBDA m : BothIn(m, FeedWinners))
          \o SelectSeq(TierRecordsOf(2, 9..12),
                       LAMBDA m : ~ BothIn(m, FeedWinners) /\ BothIn(m, FeedLosers))

\* C25: the lower-tier round-1 matchups are listed in canonical order, the
\* 9v12 record before the 10v11 record, whatever their order in the feed, and
\* the round-1 winners and losers that split round 2 are those of all
\* lower-tier round-1 records of the feed.
C25_CanonicalRound1AndSplitSets ==
    pc = "consolation_view" => CanonicalRound1Order /\ SplitByAllRound1Records

\* winners of the middle-tier records the view lists for round k
MiddleWinnersOf(k) ==
    {Shown(consolation_rounds_dict, k)[i].w :
        i \in 1..Len(Shown(consolation_rounds_dict, k))} \ {None}

\* the participants of the nodes drawn for round k of the middle tier
DrawnMiddleNodes(k) ==
    IF k \in DOMAIN consolation_bracket THEN Range(consolation_bracket[k]) ELSE {}

\* C13: a record (or drawn node) the view reports for round k > 1 of the
\* middle tier has both participants among the winners of the middle-tier
\* games of round k-1.
C13_MiddleTierWinnerPropagation ==
    pc = "consolation_view" =>
        \A k \in (DOMAIN consolation_rounds_dict) \cup (DOMAIN consolation_bracket) :
            k > 1 =>
                /\ \A m \in Range(Shown(consolation_rounds_dict, k)) :
                        BothIn(m, MiddleWinnersOf(k - 1))
                /\ \A n \in DrawnMiddleNodes(k) :
                        {n.team1_id, n.team2_id} \subseteq MiddleWinnersOf(k - 1)

(***************************************************************************)
(* Claim about the champion call sites (checked under SpecChampion)        *)
(***************************************************************************)
FinalRound == MaxRoundOf(winners_bracket)

\* the nodes the bracket resolver outputs for a round of the feed
ResolvedNodes(k) ==
    LET bracket == build_tournament_bracket(GroupByRound(winners_bracket), seed_map)
    IN  IF k \in DOMAIN bracket THEN Range(bracket[k]) ELSE {}

\* C5: the reported champion is the winner, and the reported runner-up the
\* loser, of a final-round game whose two participants both won in the
\* previous round (a node of the resolved final round); a final-round record
\* between other rosters never supplies either of them.
C5_ChampionFromTitleGame ==
    (pc \in {"history_view", "overview", "records_book_post_season"} /\ FinalRound > 1) =>
        /\ champion # None =>
            \E n \in ResolvedNodes(FinalRound) : n.winner_id = champion
        /\ runner_up # None =>
            \E n \in ResolvedNodes(FinalRound) :
                /\ n.winner_id # None
                /\ runner_up \in {n.team1_id, n.team2_id} \ {n.winner_id}

(***************************************************************************)
(* Claims about the seed assigner (checked under SpecSeeds)                *)
(***************************************************************************)
RosterIds == {rosters[i].roster_id : i \in 1..Len(rosters)}

SeedValues == {seed_map[id] : id \in DOMAIN seed_map}

RanksAbove(i, j) ==
    \/ rosters[i].wins > rosters[j].wins
    \/ /\ rosters[i].wins = rosters[j].wins
       /\ rosters[i].fpts * 100 + rosters[i].fpts_decimal
            > rosters[j].fpts * 100 + rosters[j].fpts_decimal

EqualRecord(i, j) ==
    /\ rosters[i].wins = rosters[j].wins
    /\ rosters[i].fpts * 100 + rosters[i].fpts_decimal
            = rosters[j].fpts * 100 + rosters[j].fpts_decimal

\* roster i is seeded ahead of roster j: whenever j has a seed, i has a lower one
SeededAhead(i, j) ==
    rosters[j].roster_id \in DOMAIN seed_map =>
        /\ rosters[i].roster_id \in DOMAIN seed_map
        /\ seed_map[rosters[i].roster_id] < seed_map[rosters[j].roster_id]

\* C7: seeds follow wins descending, then points descending; rosters equal in
\* both keep their input order (the earlier one gets the lower seed number).
C7_SeedOrder ==
    pc = "seeded" =>
        \A i, j \in 1..Len(rosters) :
            /\ RanksAbove(i, j) => SeededAhead(i, j)
            /\ (i < j /\ EqualRecord(i, j)) => SeededAhead(i, j)

C7_Witness ==
    /\ pc = "seeded"
    /\ \E i, j \in 1..Len(rosters) :
            /\ i < j
            /\ rosters[j].wins = rosters[i].wins
            /\ rosters[j].fpts = rosters[i].fpts
            /\ rosters[j].fpts_decimal > rosters[i].fpts_decimal
            /\ seed_map[rosters[j].roster_id] < seed_map[rosters[i].roster_id]
    /\ \E i, j \in 1..Len(rosters) :
            /\ i < j
            /\ EqualRecord(i, j)
            /\ seed_map[rosters[i].roster_id] < seed_map[rosters[j].roster_id]
    /\ \E i, j \in 1..Len(rosters) :
            /\ rosters[i].wins > rosters[j].wins
            /\ rosters[i].fpts < rosters[j].fpts
            /\ seed_map[rosters[i].roster_id] < seed_map[rosters[j].roster_id]

(***************************************************************************)
(* Transaction value attribution: parse_sleeper_transactions               *)
(* (transactions_helper.py), the detailed trade analysis and the FAAB      *)
(* value analysis of display_transactions_tab (app.py).                    *)
(*                                                                         *)
(* Player ids are the strings of the feed (str(player_id) leaves them      *)
(* unchanged); points are kept in hundredths, so round(x, 2) leaves them   *)
(* unchanged too.  A transaction's 'created' timestamp is kept as the      *)
(* number of days between September 4 of its year and its date; a missing  *)
(* timestamp behaves like a negative number of days.  'N/A' is NA.         *)
(***************************************************************************)
NA == -1

\* range(week, 19): the week loops end with week 18
LastWeek == 18

\* the week estimated from 'created': min((days_diff // 7) + 1, 18), 'N/A'
\* when the date lies before the season start
EstimatedWeek(created) ==
    IF created >= 0 THEN Min((created \div 7) + 1, 18) ELSE NA

\* user_lookup.get(roster_to_user.get(roster_id)): the team name of a roster
\* (every roster has an owner and the owners' names are different)
TeamName(roster_id) == <<"team", roster_id>>

\* team_to_roster.get(team_name)
team_to_roster(team_name) == team_name[2]

\* the name a parsed trade gives to a player: the catalog's full_name, or
\* f"Player {player_id}" for an id the catalog does not hold
TradePlayerName(catalog, player_id) ==
    IF player_id \in DOMAIN catalog THEN catalog[player_id] ELSE <<"Player", player_id>>

\* player_name_to_id: the catalog inverted (full_name -> player id)
player_name_to_id(catalog) ==
    [name \in {catalog[id] : id \in DOMAIN catalog} |->
        CHOOSE id \in DOMAIN catalog : catalog[id] = name]

\* adds_formatted / drops_formatted: {player_name: team_name}
FormatMoves(moves, catalog) ==
    [name \in {TradePlayerName(catalog, id) : id \in DOMAIN moves} |->
        TeamName(moves[CHOOSE id \in DOMAIN moves : TradePlayerName(catalog, id) = name])]

\* roster_ids: the rosters named by a trade's adds and drops
TradeRosterIds(trans) ==
    {trans.adds[id] : id \in DOMAIN trans.adds} \cup {trans.drops[id] : id \in DOMAIN trans.drops}

\* list(roster_ids)[:2]: a set of small integers is listed in ascending order
FirstTwoRosters(trans) ==
    SubSeq(SortedKeys(TradeRosterIds(trans)), 1, Min(2, Cardinality(TradeRosterIds(trans))))

\* trade_data of a trade
TradeData(trans, catalog) ==
    [adds |-> FormatMoves(trans.adds, catalog),
     drops |-> FormatMoves(trans.drops, catalog),
     teams |-> [i \in 1..Len(FirstTwoRosters(trans)) |-> TeamName(FirstTwoRosters(trans)[i])],
     created |-> trans.created]

\* zero statistics
NoStats == [lineup |-> 0, bench |-> 0, starts |-> 0]

\* variant of PickupWeeksLoop that ends with the first week that has no
\* snapshot of the roster
RECURSIVE PickupWeeksLoopStopAtGap(_, _, _, _, _)
PickupWeeksLoopStopAtGap(md, team_roster_id, player_id, week_num, acc) ==
    IF week_num > LastWeek THEN acc
    ELSE IF week_num \in DOMAIN md /\ team_roster_id \in DOMAIN md[week_num]
    THEN LET team_matchup == md[week_num][team_roster_id]
             points == DictGet(team_matchup.players_points, player_id, None)
         IN  PickupWeeksLoopStopAtGap(md, team_roster_id, player_id, week_num + 1,
                [total_points |-> IF points # None /\ points > 0
                                  THEN acc.total_points + points ELSE acc.total_points,
                 games_in_lineup |-> IF player_id \in team_matchup.starters
                                     THEN acc.games_in_lineup + 1 ELSE acc.games_in_lineup])
    ELSE acc

\* the week loop of parse_sleeper_transactions, weeks week_num..18;
\* acc = [total_points, games_in_lineup]
RECURSIVE PickupWeeksLoop(_, _, _, _, _)
PickupWeeksLoop(md, team_roster_id, player_id, week_num, acc) ==
    IF week_num > LastWeek THEN acc
    ELSE IF week_num \in DOMAIN md /\ team_roster_id \in DOMAIN md[week_num]
    THEN LET team_matchup == md[week_num][team_roster_id]
             points == DictGet(team_matchup.players_points, player_id, None)
         IN  PickupWeeksLoop(md, team_roster_id, player_id, week_num + 1,
                [total_points |-> IF points # None /\ points > 0
                                  THEN acc.total_points + points ELSE acc.total_points,
                 games_in_lineup |-> IF player_id \in team_matchup.starters
                                     THEN acc.games_in_lineup + 1 ELSE acc.games_in_lineup])
    ELSE PickupWeeksLoop(md, team_roster_id, player_id, week_num + 1, acc)

\* total_points_after_pickup and games_started of a parsed pickup
PostPickupStats(md, team_roster_id, player_id, week) ==
    LET done == PickupWeeksLoop(md, team_roster_id, player_id, week + 1,
                                [total_points |-> 0, games_in_lineup |-> 0])
    IN  IF DOMAIN md # {} /\ week # NA /\ team_roster_id # None
           /\ (done.total_points > 0 \/ done.games_in_lineup > 0)
        THEN [total_points_after_pickup |-> done.total_points,
              games_started |-> done.games_in_lineup]
        ELSE [total_points_after_pickup |-> NA, games_started |-> NA]

\* waiver_data of the pickup of one player by one roster
WaiverData(trans, catalog, md, entity_id) ==
    LET week == EstimatedWeek(trans.created)
        stats == PostPickupStats(md, trans.adds[entity_id], entity_id, week)
    IN  [team |-> TeamName(trans.adds[entity_id]),
         player_id |-> entity_id,
         player_name |-> TradePlayerName(catalog, entity_id),
         faab_bid |-> trans.waiver_bid,
         week |-> week,
         total_points_after_pickup |-> stats.total_points_after_pickup,
         games_started |-> stats.games_started]

\* the parsed pickups of one waiver transaction (one per added player)
RECURSIVE WaiverRows(_, _, _, _)
WaiverRows(trans, catalog, md, ids) ==
    IF ids = <<>> THEN <<>>
    ELSE <<WaiverData(trans, catalog, md, Head(ids))>>
         \o WaiverRows(trans, catalog, md, Tail(ids))

\* the trades list of parse_sleeper_transactions
RECURSIVE ParsedTrades(_, _)
ParsedTrades(raw, catalog) ==
    IF raw = <<>> THEN <<>>
    ELSE LET trans == Head(raw)
         IN  (IF trans.type = "trade" /\ Cardinality(TradeRosterIds(trans)) >= 2
              THEN <<TradeData(trans, catalog)>> ELSE <<>>)
             \o ParsedTrades(Tail(raw), catalog)

\* the waivers list of parse_sleeper_transactions (pickups with a bid)
RECURSIVE ParsedWaivers(_, _, _)
ParsedWaivers(raw, catalog, md) ==
    IF raw = <<>> THEN <<>>
    ELSE LET trans == Head(raw)
         IN  (IF trans.type = "waiver" /\ trans.waiver_bid > 0
              THEN WaiverRows(trans, catalog, md, SortedKeys(DOMAIN trans.adds))
              ELSE <<>>)
             \o ParsedWaivers(Tail(raw), catalog, md)

\* variant of TradeWeekStats that adds the points of a started week to the
\* bench points as well
TradeWeekStatsBoth(md, roster_id, player_id, week_num) ==
    IF week_num \in DOMAIN md /\ roster_id \in DOMAIN md[week_num]
    THEN LET team_matchup == md[week_num][roster_id]
             points == DictGet(team_matchup.players_points, player_id, None)
         IN  IF player_id \in DOMAIN team_matchup.players_points
                /\ points # None /\ points > 0
             THEN IF player_id \in team_matchup.starters
                  THEN [lineup |-> points, bench |-> points, starts |-> 1]
                  ELSE [lineup |-> 0, bench |-> points, starts |-> 0]
             ELSE NoStats
    ELSE NoStats

\* the statistics one week adds in calc_player_stats_after_trade
TradeWeekStats(md, roster_id, player_id, week_num) ==
    IF week_num \in DOMAIN md /\ roster_id \in DOMAIN md[week_num]
    THEN LET team_matchup == md[week_num][roster_id]
             points == DictGet(team_matchup.players_points, player_id, None)
         IN  IF player_id \in DOMAIN team_matchup.players_points
                /\ points # None /\ points > 0
             THEN IF player_id \in team_matchup.starters
                  THEN [lineup |-> points, bench |-> 0, starts |-> 1]
                  ELSE [lineup |-> 0, bench |-> points, starts |-> 0]
             ELSE NoStats
    ELSE NoStats

\* variant of FaabWeekStats that adds the points of a started week whatever
\* their sign
FaabWeekStatsAnySign(md, roster_id, player_id, week_num) ==
    IF week_num \in DOMAIN md /\ roster_id \in DOMAIN md[week_num]
    THEN LET team_matchup == md[week_num][roster_id]
             points == DictGet(team_matchup.players_points, player_id, None)
         IN  IF player_id \in DOMAIN team_matchup.players_points /\ points # None
             THEN IF player_id \in team_matchup.starters
                  THEN [lineup |-> points, bench |-> 0, starts |-> 1]
                  ELSE [lineup |-> 0, bench |-> points, starts |-> 0]
             ELSE NoStats
    ELSE NoStats

\* the statistics one week adds in the FAAB value analysis
FaabWeekStats(md, roster_id, player_id, week_num) ==
    IF week_num \in DOMAIN md /\ roster_id \in DOMAIN md[week_num]
    THEN LET team_matchup == md[week_num][roster_id]
             points == DictGet(team_matchup.players_points, player_id, None)
         IN  IF player_id \in DOMAIN team_matchup.players_points
                /\ points # None /\ points > 0
             THEN IF player_id \in team_matchup.starters
                  THEN [lineup |-> points, bench |-> 0, starts |-> 1]
                  ELSE [lineup |-> 0, bench |-> points, starts |-> 0]
             ELSE NoStats
    ELSE NoStats

\* [p for p, t in moves.items() if t == team], in the order of the player ids
RECURSIVE NamesInOrder(_)
NamesInOrder(names) ==
    IF names = {} THEN <<>>
    ELSE LET first == CHOOSE n \in names : \A o \in names : n[2] <= o[2]
         IN  <<first>> \o NamesInOrder(names \ {first})

PlayersOfTeam(moves, team) ==
    NamesInOrder({name \in DOMAIN moves : moves[name] = team})

\* the guards of the trade loop: two teams, both rosters known, a week
TradeAttributable(trade) ==
    /\ Len(trade.teams) = 2
    /\ team_to_roster(trade.teams[1]) # None
    /\ team_to_roster(trade.teams[2]) # None
    /\ EstimatedWeek(trade.created) # NA

\* the totals of the valuation loop in progress
FrameStats ==
    [lineup |-> frame.total_points_lineup, bench |-> frame.total_points_bench,
     starts |-> frame.total_starts]

\* the frame of a call calc_player_stats_after_trade(players_list, roster_id, trade_week)
CallFrame(i, side, players_list, roster_id, trade_week, team1_stats) ==
    [i |-> i, players_list |-> players_list, player_id |-> None, roster_id |-> roster_id,
     week |-> trade_week, side |-> side, p |-> 1, week_num |-> trade_week,
     total_points_lineup |-> 0, total_points_bench |-> 0, total_starts |-> 0,
     team1_stats |-> team1_stats]

\* the row appended to trade_analyses
TradeRow(trade, team1_stats, team2_stats) ==
    [week |-> EstimatedWeek(trade.created),
     team1 |-> trade.teams[1],
     team1_received |-> PlayersOfTeam(trade.adds, trade.teams[1]),
     team1_stats |-> team1_stats,
     team2 |-> trade.teams[2],
     team2_received |-> PlayersOfTeam(trade.adds, trade.teams[2]),
     team2_stats |-> team2_stats,
     winner |-> IF team1_stats.lineup > team2_stats.lineup THEN trade.teams[1]
                ELSE IF team2_stats.lineup > team1_stats.lineup THEN trade.teams[2]
                ELSE <<"Tie", 0>>]

\* the row appended to valuable_pickups
PickupRow(waiver, stats) ==
    [week |-> waiver.week, player |-> waiver.player_name, team |-> waiver.team,
     faab_spent |-> waiver.faab_bid, stats |-> stats]

(***************************************************************************)
(* Inputs of the value attribution: one trade and one waiver pickup of the *)
(* same date late in the season, and the weekly snapshots of the last      *)
(* weeks                                                                   *)
(***************************************************************************)
MaxWeeks == 3       \* the snapshots cover the last MaxWeeks weeks of the season

FirstWeek == LastWeek - MaxWeeks + 1

\* the catalog with every player, and without player 1 (met with the
\* two-player trade)
FullCatalog == [id \in {1, 2, 3} |-> <<"name", id>>]

CatalogPool == {FullCatalog, [id \in {2, 3} |-> <<"name", id>>]}

\* what a week's snapshot holds for roster 1 and player 1: a start with 20
\* points, 8 points on the bench, a start with no points, -2 points on the
\* bench, a start with -2 points, a start without an entry in the points map
Roster1Pool ==
    {[starters |-> {1}, players_points |-> (1 :> 2000)],
     [starters |-> {}, players_points |-> (1 :> 800)],
     [starters |-> {1}, players_points |-> (1 :> 0)],
     [starters |-> {}, players_points |-> (1 :> -200)],
     [starters |-> {1}, players_points |-> (1 :> -200)],
     [starters |-> {1}, players_points |-> EmptyDict]}

\* roster 2 starts player 2 every week
Roster2Snapshot == [starters |-> {2}, players_points |-> (2 :> 1000)]

\* week_data of a week: no matchups (the week is left out of matchup_data),
\* roster 2 only, or both rosters
WeekPool ==
    {EmptyDict, (2 :> Roster2Snapshot)}
    \cup {(1 :> cell) @@ (2 :> Roster2Snapshot) : cell \in Roster1Pool}

\* matchup_data built from the week_data of the weeks FirstWeek..18
MatchupData(week_data) ==
    [w \in {x \in DOMAIN week_data : DOMAIN week_data[x] # {}} |-> week_data[w]]

\* 'created' of a transaction made in the middle of week w
CreatedIn(w) == (w - 1) * 7 + 3

CreatedPool == {-1} \cup {CreatedIn(w) : w \in FirstWeek..LastWeek}

\* trades: players 1 and 2 swapped by rosters 1 and 2; three players moved
\* among rosters 1, 2 and 3; players 1 and 3 both moved to roster 1
TradePool(created) ==
    {[type |-> "trade", created |-> created, waiver_bid |-> 0,
      adds |-> (1 :> 1) @@ (2 :> 2), drops |-> (1 :> 2) @@ (2 :> 1)],
     [type |-> "trade", created |-> created, waiver_bid |-> 0,
      adds |-> (1 :> 1) @@ (2 :> 2) @@ (3 :> 3), drops |-> (1 :> 3) @@ (2 :> 1) @@ (3 :> 2)],
     [type |-> "trade", created |-> created, waiver_bid |-> 0,
      adds |-> (1 :> 1) @@ (3 :> 1), drops |-> (1 :> 2) @@ (3 :> 2)]}

\* the pickup of player 1 by roster 1 for a bid of 5
Pickup(created) ==
    [type |-> "waiver", created |-> created, waiver_bid |-> 5,
     adds |-> (1 :> 1), drops |-> EmptyDict]

InitTransactions ==
    /\ rosters = <<>>
    /\ seed_map = EmptyDict
    /\ winners_bracket = <<>>
    /\ losers_bracket = <<>>
    /\ NoBracketOutputs
    /\ NoSeasonState
    /\ \E created \in CreatedPool : \E trade \in TradePool(created) :
            transactions = <<trade, Pickup(created)>>
    /\ players \in CatalogPool
    /\ players # FullCatalog => Cardinality(DOMAIN transactions[1].adds) = 2
    /\ \E week_data \in [FirstWeek..LastWeek -> WeekPool] :
            matchup_data = MatchupData(week_data)
    /\ trades = <<>>
    /\ waivers = <<>>
    /\ trade_analyses = <<>>
    /\ valuable_pickups = <<>>
    /\ frame = NoFrame
    /\ pc = "raw"

\* parsed = parse_sleeper_transactions(transactions, users, rosters, players,
\*                                     matchup_data_by_week, year)
ParseSleeperTransactions ==
    /\ pc = "raw"
    /\ trades' = ParsedTrades(transactions, players)
    /\ waivers' = ParsedWaivers(transactions, players, matchup_data)
    /\ pc' = "trades"
    /\ UNCHANGED <<inputs, season_state, seed_map, bracket_outputs, tier_outputs, transaction_inputs,
                   trade_analyses, valuable_pickups, frame>>

\* detailed trade analysis: a trade that fails one of the guards is passed over
TradeSkip ==
    /\ pc = "trades"
    /\ frame.i <= Len(trades)
    /\ ~ TradeAttributable(trades[frame.i])
    /\ frame' = [frame EXCEPT !.i = frame.i + 1]
    /\ UNCHANGED <<inputs, season_state, seed_map, bracket_outputs, tier_outputs, transaction_inputs,
                   trades, waivers, trade_analyses, valuable_pickups, pc>>

\* calc_player_stats_after_trade(team1_received, roster_id1, trade_week) is called
TradeCall ==
    /\ pc = "trades"
    /\ frame.i <= Len(trades)
    /\ TradeAttributable(trades[frame.i])
    /\ LET trade == trades[frame.i]
       IN  frame' = CallFrame(frame.i, 1, PlayersOfTeam(trade.adds, trade.teams[1]),
                              team_to_roster(trade.teams[1]),
                              EstimatedWeek(trade.created), NoStats)
    /\ pc' = "calc"
    /\ UNCHANGED <<inputs, season_state, seed_map, bracket_outputs, tier_outputs, transaction_inputs,
                   trades, waivers, trade_analyses, valuable_pickups>>

\* player_id = player_id_mapping.get(player_name); if not player_id: continue
CalcSkipPlayer ==
    /\ pc = "calc"
    /\ frame.p <= Len(frame.players_list)
    /\ frame.players_list[frame.p] \notin DOMAIN player_name_to_id(players)
    /\ frame' = [frame EXCEPT !.p = frame.p + 1]
    /\ UNCHANGED <<inputs, season_state, seed_map, bracket_outputs, tier_outputs, transaction_inputs,
                   trades, waivers, trade_analyses, valuable_pickups, pc>>

\* one iteration of for week_num in range(trade_week, 19); behind week 18 the
\* loop over players_list goes on with the next player
CalcWeek ==
    /\ pc = "calc"
    /\ frame.p <= Len(frame.players_list)
    /\ frame.players_list[frame.p] \in DOMAIN player_name_to_id(players)
    /\ LET player_id == player_name_to_id(players)[frame.players_list[frame.p]]
           add == TradeWeekStats(matchup_data, frame.roster_id, player_id, frame.week_num)
       IN  frame' = [frame EXCEPT
                        !.total_points_lineup = @ + add.lineup,
                        !.total_points_bench = @ + add.bench,
                        !.total_starts = @ + add.starts,
                        !.week_num = IF frame.week_num >= LastWeek THEN frame.week ELSE @ + 1,
                        !.p = IF frame.week_num >= LastWeek THEN @ + 1 ELSE @]
    /\ UNCHANGED <<inputs, season_state, seed_map, bracket_outputs, tier_outputs, transaction_inputs,
                   trades, waivers, trade_analyses, valuable_pickups, pc>>

\* return total_points_lineup, total_points_bench, total_starts: the first
\* call is followed by the call for team 2, the second by the row of the trade
CalcReturn ==
    /\ pc = "calc"
    /\ frame.p > Len(frame.players_list)
    /\ LET trade == trades[frame.i]
       IN  IF frame.side = 1
           THEN /\ frame' = CallFrame(frame.i, 2, PlayersOfTeam(trade.adds, trade.teams[2]),
                                      team_to_roster(trade.teams[2]),
                                      EstimatedWeek(trade.created), FrameStats)
                /\ UNCHANGED <<trade_analyses, pc>>
           ELSE /\ trade_analyses' =
                        Append(trade_analyses, TradeRow(trade, frame.team1_stats, FrameStats))
                /\ frame' = [NoFrame EXCEPT !.i = frame.i + 1]
                /\ pc' = "trades"
    /\ UNCHANGED <<inputs, season_state, seed_map, bracket_outputs, tier_outputs, transaction_inputs,
                   trades, waivers, valuable_pickups>>

\* the trade loop is over; the FAAB analysis starts with the first pickup
TradesDone ==
    /\ pc = "trades"
    /\ frame.i > Len(trades)
    /\ frame' = NoFrame
    /\ pc' = "faab"
    /\ UNCHANGED <<inputs, season_state, seed_map, bracket_outputs, tier_outputs, transaction_inputs,
                   trades, waivers, trade_analyses, valuable_pickups>>

\* player_id of a pickup: the parsed record's, else the catalog's for the name
PickupPlayerId(waiver) ==
    IF waiver.player_id # None THEN waiver.player_id
    ELSE DictGet(player_name_to_id(players), waiver.player_name, None)

\* the guards of the FAAB loop: a week, a known roster, a player id
PickupValued(waiver) ==
    /\ waiver.week # NA
    /\ team_to_roster(waiver.team) # None
    /\ PickupPlayerId(waiver) # None

FaabSkip ==
    /\ pc = "faab"
    /\ frame.i <= Len(waivers)
    /\ ~ PickupValued(waivers[frame.i])
    /\ frame' = [frame EXCEPT !.i = frame.i + 1]
    /\ UNCHANGED <<inputs, season_state, seed_map, bracket_outputs, tier_outputs, transaction_inputs,
                   trades, waivers, trade_analyses, valuable_pickups, pc>>

\* points_in_lineup = 0.0; games_started = 0; points_on_bench = 0.0
FaabStart ==
    /\ pc = "faab"
    /\ frame.i <= Len(waivers)
    /\ PickupValued(waivers[frame.i])
    /\ LET waiver == waivers[frame.i]
       IN  frame' = [NoFrame EXCEPT !.i = frame.i,
                                    !.player_id = PickupPlayerId(waiver),
                                    !.roster_id = team_to_roster(waiver.team),
                                    !.week = waiver.week,
                                    !.week_num = waiver.week]
    /\ pc' = "faab_loop"
    /\ UNCHANGED <<inputs, season_state, seed_map, bracket_outputs, tier_outputs, transaction_inputs,
                   trades, waivers, trade_analyses, valuable_pickups>>

\* one iteration of for week_num in range(week, 19)
FaabWeek ==
    /\ pc = "faab_loop"
    /\ frame.week_num <= LastWeek
    /\ LET add == FaabWeekStats(matchup_data, frame.roster_id, frame.player_id, frame.week_num)
       IN  frame' = [frame EXCEPT
                        !.total_points_lineup = @ + add.lineup,
                        !.total_points_bench = @ + add.bench,
                        !.total_starts = @ + add.starts,
                        !.week_num = @ + 1]
    /\ UNCHANGED <<inputs, season_state, seed_map, bracket_outputs, tier_outputs, transaction_inputs,
                   trades, waivers, trade_analyses, valuable_pickups, pc>>

\* valuable_pickups.append({...})
FaabAppend ==
    /\ pc = "faab_loop"
    /\ frame.week_num > LastWeek
    /\ valuable_pickups' = Append(valuable_pickups, PickupRow(waivers[frame.i], FrameStats))
    /\ frame' = [NoFrame EXCEPT !.i = frame.i + 1]
    /\ pc' = "faab"
    /\ UNCHANGED <<inputs, season_state, seed_map, bracket_outputs, tier_outputs, transaction_inputs,
                   trades, waivers, trade_analyses>>

FaabDone ==
    /\ pc = "faab"
    /\ frame.i > Len(waivers)
    /\ frame' = NoFrame
    /\ pc' = "done"
    /\ UNCHANGED <<inputs, season_state, seed_map, bracket_outputs, tier_outputs, transaction_inputs,
                   trades, waivers, trade_analyses, valuable_pickups>>

NextTransactions ==
    \/ ParseSleeperTransactions
    \/ TradeSkip
    \/ TradeCall
    \/ CalcSkipPlayer
    \/ CalcWeek
    \/ CalcReturn
    \/ TradesDone
    \/ FaabSkip
    \/ FaabStart
    \/ FaabWeek
    \/ FaabAppend
    \/ FaabDone

SpecTransactions == InitTransactions /\ [][NextTransactions]_vars


(***************************************************************************)
(* Value attribution as the specification states it: an acquisition of     *)
(* player P by roster R in week w is valued over the weeks w+1..18, read   *)
(* straight from the weekly snapshots.                                     *)
(***************************************************************************)
\* the roster has a snapshot in the week
HasSnapshot(week, roster) ==
    week \in DOMAIN matchup_data /\ roster \in DOMAIN matchup_data[week]

\* the player is in the starting lineup of the roster in the week
InLineup(week, roster, player) ==
    HasSnapshot(week, roster) /\ player \in matchup_data[week][roster].starters

\* the points recorded for the player on the roster in the week, 0 when none
\* are recorded
RecordedPoints(week, roster, player) ==
    IF HasSnapshot(week, roster) /\ player \in DOMAIN matchup_data[week][roster].players_points
    THEN matchup_data[week][roster].players_points[player]
    ELSE 0

\* the sum, over the weeks first..18 in which the player is in the starting
\* lineup of the roster, of the player's points of the week
RECURSIVE LineupPointsFrom(_, _, _)
LineupPointsFrom(first, roster, player) ==
    IF first > LastWeek THEN 0
    ELSE (IF InLineup(first, roster, player) THEN RecordedPoints(first, roster, player) ELSE 0)
         + LineupPointsFrom(first + 1, roster, player)

\* the sum, over the weeks first..18 in which the player has nonzero points on
\* the roster and is not in its starting lineup, of the player's points of the
\* week
RECURSIVE BenchPointsFrom(_, _, _)
BenchPointsFrom(first, roster, player) ==
    IF first > LastWeek THEN 0
    ELSE (IF ~ InLineup(first, roster, player) THEN RecordedPoints(first, roster, player) ELSE 0)
         + BenchPointsFrom(first + 1, roster, player)

\* the weeks first..18 in which the player is in the starting lineup of the
\* roster
StartWeeksFrom(first, roster, player) ==
    {week \in first..LastWeek : InLineup(week, roster, player)}

\* the trade and the pickup of the season's transactions
TheTrade == transactions[1]
ThePickup == transactions[2]

\* the players a raw transaction adds to the roster
AddedTo(trans, roster) == {player \in DOMAIN trans.adds : trans.adds[player] = roster}

\* the sides of the trade rows: the roster, the player ids it received in the
\* raw trade, the week and the statistics of the row
TradeSides ==
    UNION {{[roster |-> team_to_roster(trade_analyses[k].team1),
             received |-> AddedTo(TheTrade, team_to_roster(trade_analyses[k].team1)),
             week |-> trade_analyses[k].week,
             stats |-> trade_analyses[k].team1_stats],
            [roster |-> team_to_roster(trade_analyses[k].team2),
             received |-> AddedTo(TheTrade, team_to_roster(trade_analyses[k].team2)),
             week |-> trade_analyses[k].week,
             stats |-> trade_analyses[k].team2_stats]} : k \in 1..Len(trade_analyses)}

\* the trade sides that received exactly one player, a player of the catalog
SinglePlayerSides ==
    {side \in TradeSides :
        Cardinality(side.received) = 1 /\ side.received \subseteq DOMAIN players}

\* the player of a single-player side
PlayerOf(side) == CHOOSE player \in side.received : TRUE

\* the FAAB rows: the roster and the player of the raw pickup, the week and
\* the statistics of the row
PickupSides ==
    {[roster |-> team_to_roster(valuable_pickups[k].team),
      received |-> AddedTo(ThePickup, team_to_roster(valuable_pickups[k].team)),
      week |-> valuable_pickups[k].week,
      stats |-> valuable_pickups[k].stats] : k \in 1..Len(valuable_pickups)}

\* every valued acquisition of one player
ValuedAcquisitions == SinglePlayerSides \cup PickupSides

\* C14: lineup_points of an acquisition of player by roster in week w is the sum, over
\* the weeks w+1 through the end of the season in which P is in R's starting
\* lineup, of P's points of that week.
C14_LineupPointsAfterWeek ==
    pc = "done" =>
        \A a \in ValuedAcquisitions :
            a.stats.lineup = LineupPointsFrom(a.week + 1, a.roster, PlayerOf(a))

\* C15: starts of an acquisition is the number of weeks in w+1..end in which P
\* is in R's starting lineup.
C15_StartsAfterWeek ==
    pc = "done" =>
        \A a \in ValuedAcquisitions :
            a.stats.starts = Cardinality(StartWeeksFrom(a.week + 1, a.roster, PlayerOf(a)))

\* C16: where bench_points is reported, it is the sum of P's points over the
\* weeks in w+1..end in which P has nonzero points on R and is not in the
\* starting lineup.
C16_BenchPointsAfterWeek ==
    pc = "done" =>
        \A a \in ValuedAcquisitions :
            a.stats.bench = BenchPointsFrom(a.week + 1, a.roster, PlayerOf(a))

\* the statistics of an attribution reported as unavailable
Unavailable == [lineup |-> NA, bench |-> NA, starts |-> NA]

\* C17: when the acquired player's identifier cannot be resolved in the
\* catalog, the attribution is reported as unavailable (lineup points, bench
\* points and starts all null), never as zeros.
C17_LookupMissUnavailable ==
    pc = "done" =>
        \A side \in TradeSides :
            ~ (side.received \subseteq DOMAIN players) => side.stats = Unavailable

\* the rosters a raw trade's adds and drops involve
InvolvedRosters(trans) ==
    {trans.adds[id] : id \in DOMAIN trans.adds}
    \cup {trans.drops[id] : id \in DOMAIN trans.drops}

\* C18: a trade that involves three or more rosters never produces a
\* value-attribution row for any two of its teams.
C18_ThreeTeamTradeNotAttributed ==
    pc = "done" =>
        (Cardinality(InvolvedRosters(TheTrade)) >= 3 => trade_analyses = <<>>)

\* the starts stored on a parsed pickup, 'N/A' read as none
StoredStarts(waiver) ==
    IF waiver.games_started = NA THEN 0 ELSE waiver.games_started

\* the parsed pickups: the roster, the player, the week and the stored starts
ParsedPickups ==
    {[roster |-> team_to_roster(waivers[k].team),
      received |-> {waivers[k].player_id},
      week |-> waivers[k].week,
      starts |-> StoredStarts(waivers[k])] : k \in 1..Len(waivers)}

SameAcquisition(a, b) ==
    a.roster = b.roster /\ a.received = b.received /\ a.week = b.week

\* C19: for the same roster, player, week and snapshots, the FAAB valuation,
\* the valuation of the player as the single player received on one side of a
\* trade and the statistics stored on the parsed pickup agree on the starts,
\* and the two valuations agree on lineup and bench points.
C19_ValuationPathsAgree ==
    pc = "done" =>
        \A b \in PickupSides :
            /\ \A a \in TradeSides :
                    (Cardinality(a.received) = 1 /\ SameAcquisition(a, b))
                        => a.stats = b.stats
            /\ \A c \in ParsedPickups :
                    SameAcquisition(c, b) => c.starts = b.stats.starts

\* a valuation loop goes on with its next week (or its next player)
LoopGoesOn ==
    \/ pc = "faab_loop" /\ pc' = "faab_loop" /\ frame'.i = frame.i
    \/ pc = "calc" /\ pc' = "calc" /\ frame'.i = frame.i /\ frame'.side = frame.side

\* C20: value attribution is monotonic in the week range: extending the range
\* of weeks by one more week never decreases lineup_points or starts.
C20_MonotonicInWeekRange ==
    [][LoopGoesOn =>
            /\ frame'.total_points_lineup >= frame.total_points_lineup
            /\ frame'.total_starts >= frame.total_starts]_vars

\* the FAAB loop has valued every week: the pickup was started with points
\* before week 18 and started with negative points in week 18
C20_Witness ==
    /\ pc = "faab_loop"
    /\ frame.week_num > LastWeek
    /\ frame.week < LastWeek
    /\ frame.total_points_lineup > 0
    /\ frame.total_starts >= 1
    /\ InLineup(LastWeek, frame.roster_id, frame.player_id)
    /\ RecordedPoints(LastWeek, frame.roster_id, frame.player_id) < 0

(***************************************************************************)
(* The valuation loops week by week                                        *)
(***************************************************************************)
\* the player's points of the week on the roster when they are positive
PositivePoints(week, roster, player) ==
    IF RecordedPoints(week, roster, player) > 0
    THEN RecordedPoints(week, roster, player) ELSE 0

\* the sum of the player's positive weekly points over the weeks first..last
RECURSIVE PositivePointsOver(_, _, _, _)
PositivePointsOver(first, last, roster, player) ==
    IF first > last THEN 0
    ELSE PositivePoints(first, roster, player)
         + PositivePointsOver(first + 1, last, roster, player)

\* the positive points of the weeks first..18 in which the player is in the
\* starting lineup of the roster
RECURSIVE PositiveLineupFrom(_, _, _)
PositiveLineupFrom(first, roster, player) ==
    IF first > LastWeek THEN 0
    ELSE (IF InLineup(first, roster, player)
          THEN PositivePoints(first, roster, player) ELSE 0)
         + PositiveLineupFrom(first + 1, roster, player)

\* the weeks first..18 in which the player scored in the starting lineup
ScoringStartsFrom(first, roster, player) ==
    {week \in first..LastWeek :
        InLineup(week, roster, player) /\ PositivePoints(week, roster, player) > 0}

\* the weeks of the range w+1..18 for which the roster has no snapshot
MissingWeeksAfter(w, roster) ==
    {week \in (w + 1)..LastWeek : ~ HasSnapshot(week, roster)}

\* C22: a week without a snapshot, or without a snapshot of roster R,
\* contributes zero to lineup points, bench points and starts, and the weeks
\* after it are still valued: the numbers reported are those of the weeks
\* that have a snapshot, whatever weeks are missing between them.
C22_MissingWeeksContributeZero ==
    pc = "done" =>
        /\ \A a \in ValuedAcquisitions :
                /\ a.stats.lineup = PositiveLineupFrom(a.week, a.roster, PlayerOf(a))
                /\ a.stats.lineup + a.stats.bench
                        = PositivePointsOver(a.week, LastWeek, a.roster, PlayerOf(a))
                /\ a.stats.starts
                        = Cardinality(ScoringStartsFrom(a.week, a.roster, PlayerOf(a)))
        /\ \A c \in ParsedPickups :
                c.week # NA =>
                    c.starts = Cardinality(StartWeeksFrom(c.week + 1, c.roster, PlayerOf(c)))

\* a pickup followed by a week without a snapshot of the roster and then by a
\* week in which the player scored in the starting lineup
C22_Witness ==
    /\ pc = "done"
    /\ \E b \in PickupSides : \E c \in ParsedPickups :
            /\ SameAcquisition(c, b)
            /\ b.week + 2 <= LastWeek
            /\ b.week + 1 \in MissingWeeksAfter(b.week, b.roster)
            /\ b.week + 2 \in ScoringStartsFrom(b.week, b.roster, PlayerOf(b))
            /\ b.stats.lineup > 0
            /\ b.stats.starts >= 1
            /\ c.starts >= 1

\* the weeks the loop in progress has valued so far are frame.week..ValuedUpTo
ValuedUpTo == frame.week_num - 1

\* a valuation loop is valuing one player: the FAAB loop, or a call of
\* calc_player_stats_after_trade for a single player of the catalog
ValuingOnePlayer ==
    \/ pc = "faab_loop"
    \/ /\ pc = "calc"
       /\ Len(frame.players_list) = 1
       /\ frame.p = 1
       /\ frame.players_list[1] \in DOMAIN player_name_to_id(players)

\* the player the loop in progress is valuing
ValuedPlayer ==
    IF pc = "faab_loop" THEN frame.player_id
    ELSE player_name_to_id(players)[frame.players_list[1]]

\* C29: each week's points are counted at most once, in lineup points or in
\* bench points: after any number of weeks, lineup points plus bench points do
\* not exceed the sum of the player's positive weekly points on the roster over
\* the weeks valued so far.
C29_PointsCountedOnce ==
    ValuingOnePlayer =>
        frame.total_points_lineup + frame.total_points_bench
            <= PositivePointsOver(frame.week, ValuedUpTo, frame.roster_id, ValuedPlayer)

\* a loop that has valued a scoring start and a scoring week on the bench
C29_Witness ==
    /\ ValuingOnePlayer
    /\ frame.total_points_lineup > 0
    /\ frame.total_points_bench > 0
    /\ frame.total_starts >= 1
    /\ ValuedUpTo > frame.week

(***************************************************************************)
(* The winner set of build_tournament_bracket                              *)
(***************************************************************************)
\* the records of round k of the winners bracket
FeedRecordsOf(k) == {m \in Range(winners_bracket) : m.r = k}

\* the record has a node in round k of the structured bracket
HasNode(m, k) ==
    \E n \in NodesOf(k) :
        n.team1_id = m.t1 /\ n.team2_id = m.t2 /\ n.winner_id = m.w

\* C26: the winner set that admits the records of round k+1 holds the winner
\* of every node of round k that has a winner, whether or not the records
\* carry a matchup id: a record of round k+1 between two such winners is
\* always admitted.
C26_WinnerSetComplete ==
    pc = "built" =>
        \A k \in Rounds :
            \A m \in FeedRecordsOf(k + 1) :
                (m.t1 \in WinnersOf(k) /\ m.t2 \in WinnersOf(k)) => HasNode(m, k + 1)

(***************************************************************************)
(* The tiers as drawn by display_bracket                                   *)
(***************************************************************************)
\* the record is a node of round k of a drawn bracket
Drawn(bracket, m, k) ==
    /\ k \in DOMAIN bracket
    /\ \E i \in 1..Len(bracket[k]) :
            {bracket[k][i].team1_id, bracket[k][i].team2_id} = {m.t1, m.t2}

\* the winners of the round-1 records passed in for a tier
PassedRound1Winners(rounds_dict) ==
    {Shown(rounds_dict, 1)[i].w : i \in 1..Len(Shown(rounds_dict, 1))} \ {None}

\* every round-1 record passed in, and every later record between two
\* round-1 winners, is a node of the drawn bracket
DrawnComplete(rounds_dict, bracket) ==
    /\ \A i \in 1..Len(Shown(rounds_dict, 1)) : Drawn(bracket, rounds_dict[1][i], 1)
    /\ \A k \in DOMAIN rounds_dict \ {1} :
            \A i \in 1..Len(rounds_dict[k]) :
                BothIn(rounds_dict[k][i], PassedRound1Winners(rounds_dict))
                    => Drawn(bracket, rounds_dict[k][i], k)

\* C27: when the rounds of the lower tier or of the middle tier are drawn,
\* every round-1 matchup passed in is a node of the bracket that is drawn, and
\* so is every later matchup between two round-1 winners of the tier.
C27_TierBracketsDrawn ==
    pc = "consolation_view" =>
        /\ DrawnComplete(display_toilet_bowl_rounds, toilet_bowl_bracket)
        /\ DrawnComplete(consolation_rounds_dict, consolation_bracket)

(***************************************************************************)
(* The champion at the call sites                                          *)
(***************************************************************************)
\* what each call site derives from the winners bracket and the rosters
ChampionBySite ==
    [history_view |-> HistoryChampion(winners_bracket, rosters),
     overview |-> OverviewChampion(winners_bracket, rosters),
     records_book_post_season |-> PostSeasonChampion(winners_bracket, rosters),
     team_breakdown |-> TeamBreakdownChampion(winners_bracket, rosters)]

\* C28: for the same winners bracket and rosters all call sites name the same
\* champion and the same runner-up, also when the final round holds more than
\* one record.
C28_ChampionSitesAgree ==
    pc \in DOMAIN ChampionBySite =>
        \A site \in DOMAIN ChampionBySite :
            /\ ChampionBySite[site].champion = champion
            /\ ChampionBySite[site].runner_up = runner_up

(***************************************************************************)
(* First place of the regular season and seed 1                            *)
(***************************************************************************)
\* C30: the team shown as "First Place (Season)" by the history view is the
\* roster that get_playoff_seeds gives seed 1, also when two rosters have
\* equal wins and equal fpts and differ in fpts_decimal.
C30_FirstPlaceIsSeedOne ==
    (pc = "history_first_place" /\ rosters # <<>>) =>
        /\ first_place_season \in DOMAIN seed_map
        /\ seed_map[first_place_season] = 1

(***************************************************************************)
(* Records book: totals folded over the seasons of the league.  A team is  *)
(* written as the roster id of its owner's roster; points are kept in      *)
(* hundredths.                                                             *)
(***************************************************************************)
\* rosters = get_league_rosters(league_id): every season has the twelve
\* rosters of the league
SeasonRosters(season) == League

\* the entry a team gets in team_post_season_stats when it is first seen
ZeroPostSeasonStats ==
    [titles |-> 0, runner_ups |-> 0, appearances |-> 0, wins |-> 0, losses |-> 0,
     total_points |-> 0, games |-> 0]

\* the entry a team gets in team_toilet_bowl_stats when it is first seen
ZeroToiletBowlStats ==
    [titles |-> 0, losers |-> 0, appearances |-> 0, wins |-> 0, losses |-> 0,
     total_points |-> 0, games |-> 0]

\* if team not in stats: stats[team] = zero
\* stats[team][field] += n
AddStat(stats, zero, team, field, n) ==
    DictSet(stats, team, [DictGet(stats, team, zero) EXCEPT ![field] = @ + n])

\* variant of AddTitle that gives the title only to a team without an
\* appearance in an earlier season
AddTitleFirstAppearance(stats, zero, team) ==
    IF team = None \/ DictGet(stats, team, zero).appearances > 0 THEN stats
    ELSE AddStat(stats, zero, team, "titles", 1)

\* if champion: team_post_season_stats[champion]['titles'] += 1
AddTitle(stats, zero, team) ==
    IF team = None THEN stats ELSE AddStat(stats, zero, team, "titles", 1)

\* if runner_up: ...['runner_ups'] += 1   (field 'losers' in the toilet bowl book)
AddSecond(stats, zero, team, field) ==
    IF team = None THEN stats ELSE AddStat(stats, zero, team, field, 1)

\* playoff_roster_ids: every t1 and t2 of the bracket's records
PlayoffRosterIds(bracket) ==
    ({bracket[i].t1 : i \in 1..Len(bracket)} \cup {bracket[i].t2 : i \in 1..Len(bracket)})
        \ {None}

\* for roster_id in roster_ids: if the roster is found, appearances += 1
RECURSIVE MarkAppearances(_, _, _, _)
MarkAppearances(stats, zero, roster_ids, rs) ==
    IF roster_ids = {} THEN stats
    ELSE LET roster_id == CHOOSE x \in roster_ids : TRUE
         IN  MarkAppearances(IF RosterFound(rs, roster_id)
                             THEN AddStat(stats, zero, roster_id, "appearances", 1)
                             ELSE stats,
                             zero, roster_ids \ {roster_id}, rs)

\* the keys of matchup_pairs in insertion order
RECURSIVE KeysInOrder(_)
KeysInOrder(entries) ==
    IF entries = <<>> THEN <<>>
    ELSE <<Head(entries).matchup_id>>
         \o KeysInOrder(SelectSeq(Tail(entries),
                                  LAMBDA e : e.matchup_id # Head(entries).matchup_id))

\* one pair of matchup_pairs: counted when it has two teams and a positive
\* combined score
CountGame(stats, zero, teams) ==
    IF Len(teams) # 2 THEN stats
    ELSE LET team1 == teams[1]
             team2 == teams[2]
             played1 == AddStat(AddStat(stats, zero, team1.roster_id, "total_points", team1.points),
                                zero, team1.roster_id, "games", 1)
             played == AddStat(AddStat(played1, zero, team2.roster_id, "total_points", team2.points),
                               zero, team2.roster_id, "games", 1)
         IN  IF team1.points + team2.points <= 0 THEN stats
             ELSE IF team1.points > team2.points
                  THEN AddStat(AddStat(played, zero, team1.roster_id, "wins", 1),
                               zero, team2.roster_id, "losses", 1)
             ELSE IF team2.points > team1.points
                  THEN AddStat(AddStat(played, zero, team2.roster_id, "wins", 1),
                               zero, team1.roster_id, "losses", 1)
             ELSE played

\* for matchup_id, teams in matchup_pairs.items()
RECURSIVE PairsLoop(_, _, _, _)
PairsLoop(ids, kept, zero, stats) ==
    IF ids = <<>> THEN stats
    ELSE PairsLoop(Tail(ids), kept, zero,
                   CountGame(stats, zero,
                             SelectSeq(kept, LAMBDA e : e.matchup_id = Head(ids))))

\* the loop over the playoff weeks: a week whose matchups cannot be fetched
\* is skipped; entries of rosters outside roster_ids are dropped
RECURSIVE WeeksLoop(_, _, _, _)
WeeksLoop(weeks, roster_ids, zero, stats) ==
    IF weeks = <<>> THEN stats
    ELSE LET week == Head(weeks)
             kept == SelectSeq(week.matchups, LAMBDA e : e.roster_id \in roster_ids)
         IN  WeeksLoop(Tail(weeks), roster_ids, zero,
                       IF week.status = "error" THEN stats
                       ELSE PairsLoop(KeysInOrder(kept), kept, zero, stats))

\* variant of PostSeasonSeason in which a season that fails to load ends the
\* function without its totals
PostSeasonSeasonAbort(stats, season) ==
    IF season.load = "error" THEN EmptyDict
    ELSE IF season.winners_bracket.status # "ok" \/ season.winners_bracket.records = <<>>
    THEN stats
    ELSE LET bracket == season.winners_bracket.records
             result == PostSeasonChampion(bracket, SeasonRosters(season))
             titled == AddSecond(AddTitle(stats, ZeroPostSeasonStats, result.champion),
                                 ZeroPostSeasonStats, result.runner_up, "runner_ups")
             appeared == MarkAppearances(titled, ZeroPostSeasonStats,
                                         PlayoffRosterIds(bracket), SeasonRosters(season))
         IN  WeeksLoop(season.weeks, PlayoffRosterIds(bracket), ZeroPostSeasonStats, appeared)

\* post-season records book, one season of the loop: a load failure is caught
\* by the outer except, a bracket that is None (also after a failed fetch) or
\* empty ends the iteration before anything is added
PostSeasonSeason(stats, season) ==
    IF season.load = "error" THEN stats
    ELSE IF season.winners_bracket.status # "ok" \/ season.winners_bracket.records = <<>>
    THEN stats
    ELSE LET bracket == season.winners_bracket.records
             result == PostSeasonChampion(bracket, SeasonRosters(season))
             titled == AddSecond(AddTitle(stats, ZeroPostSeasonStats, result.champion),
                                 ZeroPostSeasonStats, result.runner_up, "runner_ups")
             appeared == MarkAppearances(titled, ZeroPostSeasonStats,
                                         PlayoffRosterIds(bracket), SeasonRosters(season))
         IN  WeeksLoop(season.weeks, PlayoffRosterIds(bracket), ZeroPostSeasonStats, appeared)

\* toilet bowl records book, one season of the loop: as above, and a season
\* without lower-tier participants is skipped too
ToiletBowlSeason(stats, season) ==
    IF season.load = "error" THEN stats
    ELSE IF season.losers_bracket.status # "ok" \/ season.losers_bracket.records = <<>>
    THEN stats
    ELSE LET sm == get_playoff_seeds(SeasonRosters(season))
             matchups == ToiletBowlFilter(season.losers_bracket.records, sm)
             roster_ids == PlayoffRosterIds(matchups)
             result == ToiletBowlResult(matchups, SeasonRosters(season))
             titled == AddSecond(AddTitle(stats, ZeroToiletBowlStats, result.champion),
                                 ZeroToiletBowlStats, result.loser, "losers")
             appeared == MarkAppearances(titled, ZeroToiletBowlStats, roster_ids,
                                         SeasonRosters(season))
         IN  IF roster_ids = {} THEN stats
             ELSE WeeksLoop(season.weeks, roster_ids, ZeroToiletBowlStats, appeared)

\* for record in parsed.get(kind, []): record['year'] = year
TagYear(records, year) ==
    [i \in 1..Len(records) |-> [records[i] EXCEPT !.year = year]]

\* the records of one kind of all years, each tagged with its year, in the
\* order of the years of all_transactions
RECURSIVE CombineLoop(_, _)
CombineLoop(seasons, kind) ==
    IF seasons = <<>> THEN <<>>
    ELSE TagYear(Head(seasons).parsed[kind], Head(seasons).year)
         \o CombineLoop(Tail(seasons), kind)

(***************************************************************************)
(* Inputs of the records book                                              *)
(***************************************************************************)
MaxSeasons == 3     \* the records book covers 0..MaxSeasons seasons

Fetched(records) == [status |-> "ok", records |-> records]
NotFetched == [status |-> "none", records |-> <<>>]
FetchFailed == [status |-> "error", records |-> <<>>]

\* an entry of a week's matchups
Entry(id, seed, points) == [matchup_id |-> id, roster_id |-> R(seed), points |-> points]

\* title games after round 1 of the 1v8 / 4v5 half: seed 1 beats seed 5, and
\* seed 5 beats seed 1
TitleOne == WithMatchupIds(Round1Half \o <<Rec(2, 1, 5, 1)>>, "distinct")
TitleFive == WithMatchupIds(Round1Half \o <<Rec(2, 5, 1, 1)>>, "distinct")

\* consolation feeds: a lower tier won by seed 9 with seed 12 last, one won by
\* seed 11 with seed 10 last, and a feed of the middle tier only
LowerNine ==
    WithMatchupIds(<<Rec(1, 9, 12, 1), Rec(1, 11, 10, 1), Rec(2, 9, 11, 1),
                     Rec(2, 12, 10, 2)>>, "distinct")
LowerEleven ==
    WithMatchupIds(<<Rec(1, 9, 12, 1), Rec(1, 11, 10, 1), Rec(2, 11, 9, 1),
                     Rec(2, 10, 12, 2)>>, "distinct")
MiddleOnly == WithMatchupIds(MiddleRound1, "distinct")

\* playoff weeks: a decided game of each tier, a game without points, a tie,
\* and a pairing with a roster of another tier; a week that cannot be fetched
WeekOne ==
    [status |-> "ok",
     matchups |-> <<Entry(1, 1, 12000), Entry(2, 9, 8000), Entry(1, 5, 9050),
                    Entry(2, 11, 8500), Entry(3, 4, 0), Entry(3, 8, 0),
                    Entry(4, 12, 7000), Entry(4, 6, 5000)>>]
WeekTwo ==
    [status |-> "ok",
     matchups |-> <<Entry(1, 5, 10000), Entry(1, 1, 9900), Entry(2, 10, 7000),
                    Entry(2, 12, 7000), Entry(3, 4, 6000), Entry(3, 8, 6100)>>]
WeekFailed == [status |-> "error", matchups |-> <<>>]

\* parsed transactions of a year: n1 trades, n2 waiver pickups, n3 free-agent moves
Parsed(n1, n2, n3) ==
    [trades |-> [i \in 1..n1 |-> [id |-> i, year |-> None]],
     waivers |-> [i \in 1..n2 |-> [id |-> i, year |-> None]],
     add_drops |-> [i \in 1..n3 |-> [id |-> i, year |-> None]]]

Season(year, load, winners, losers, weeks, parsed) ==
    [year |-> year, load |-> load, winners_bracket |-> winners,
     losers_bracket |-> losers, weeks |-> weeks, parsed |-> parsed]

\* the seasons a list is drawn from: two complete seasons with different
\* champions, a season without winners bracket, one with empty brackets, one
\* that fails to load, one whose bracket fetches fail, one without lower tier
SeasonPool ==
    {Season(2018, "ok", Fetched(TitleOne), Fetched(LowerNine), <<WeekOne, WeekTwo>>,
            Parsed(2, 1, 0)),
     Season(2019, "ok", Fetched(TitleFive), Fetched(LowerEleven), <<WeekFailed, WeekTwo>>,
            Parsed(1, 0, 1)),
     Season(2021, "ok", NotFetched, Fetched(LowerNine), <<WeekOne>>, Parsed(1, 0, 0)),
     Season(2022, "ok", Fetched(<<>>), Fetched(<<>>), <<WeekOne>>, Parsed(0, 1, 1)),
     Season(2023, "error", Fetched(TitleOne), Fetched(LowerNine), <<WeekOne>>, Parsed(0, 0, 0)),
     Season(2024, "ok", FetchFailed, FetchFailed, <<WeekTwo>>, Parsed(1, 1, 1)),
     Season(2025, "ok", Fetched(TitleFive), Fetched(MiddleOnly), <<WeekOne>>, Parsed(0, 0, 2))}

\* a list of up to MaxSeasons different seasons, in any order
IsSeasonList(seasons) ==
    \E k \in 0..MaxSeasons : \E f \in [1..k -> SeasonPool] :
        /\ \A i, j \in 1..k : i # j => f[i].year # f[j].year
        /\ seasons = f

InitRecords ==
    /\ rosters = League
    /\ seed_map = EmptyDict
    /\ winners_bracket = <<>>
    /\ losers_bracket = <<>>
    /\ NoBracketOutputs
    /\ NoTransactionData
    /\ first_place_season = None
    /\ NoCallState
    /\ IsSeasonList(available_seasons)
    /\ post_idx = 1
    /\ toilet_idx = 1
    /\ team_post_season_stats = EmptyDict
    /\ team_toilet_bowl_stats = EmptyDict
    /\ all_trades = <<>>
    /\ all_waivers = <<>>
    /\ all_add_drops = <<>>
    /\ pc = "seasons"

\* display_post_season_records: one iteration of the loop over the seasons
PostSeasonRecordsStep ==
    /\ pc \in {"seasons", "combined"}
    /\ post_idx <= Len(available_seasons)
    /\ team_post_season_stats' =
            PostSeasonSeason(team_post_season_stats, available_seasons[post_idx])
    /\ post_idx' = post_idx + 1
    /\ UNCHANGED <<inputs, seed_map, bracket_outputs, tier_outputs, transaction_state,
                   first_place_season, call_state, available_seasons, toilet_idx,
                   team_toilet_bowl_stats, all_trades, all_waivers, all_add_drops, pc>>

\* display_toilet_bowl_records: one iteration of the loop over the seasons
ToiletBowlRecordsStep ==
    /\ pc \in {"seasons", "combined"}
    /\ toilet_idx <= Len(available_seasons)
    /\ team_toilet_bowl_stats' =
            ToiletBowlSeason(team_toilet_bowl_stats, available_seasons[toilet_idx])
    /\ toilet_idx' = toilet_idx + 1
    /\ UNCHANGED <<inputs, seed_map, bracket_outputs, tier_outputs, transaction_state,
                   first_place_season, call_state, available_seasons, post_idx,
                   team_post_season_stats, all_trades, all_waivers, all_add_drops, pc>>

\* combine_transactions_across_years over the parsed transactions of the
\* seasons; the year is written into the records of the input as well
CombineTransactions ==
    /\ pc = "seasons"
    /\ all_trades' = CombineLoop(available_seasons, "trades")
    /\ all_waivers' = CombineLoop(available_seasons, "waivers")
    /\ all_add_drops' = CombineLoop(available_seasons, "add_drops")
    /\ available_seasons' =
            [i \in 1..Len(available_seasons) |->
                [available_seasons[i] EXCEPT
                    !.parsed = [kind \in DOMAIN @ |->
                                    TagYear(@[kind], available_seasons[i].year)]]]
    /\ pc' = "combined"
    /\ UNCHANGED <<inputs, seed_map, bracket_outputs, tier_outputs, transaction_state,
                   first_place_season, call_state, post_idx, toilet_idx, team_post_season_stats,
                   team_toilet_bowl_stats>>

NextRecords ==
    \/ PostSeasonRecordsStep
    \/ ToiletBowlRecordsStep
    \/ CombineTransactions

SpecRecords == InitRecords /\ [][NextRecords]_vars

(***************************************************************************)
(* Claims about the records book (checked under SpecRecords)               *)
(***************************************************************************)
Teams == {League[i].roster_id : i \in 1..Len(League)}

\* the seed of a roster of the league, 0 for None
LeagueSeedOf(id) == DictGet(LeagueSeeds, id, 0)

\* the season's championship bracket was loaded and holds records
HasWinnersBracket(season) ==
    /\ season.load = "ok"
    /\ season.winners_bracket.status = "ok"
    /\ season.winners_bracket.records # <<>>

\* the season's consolation feed was loaded and holds lower-tier records
HasLowerTier(season) ==
    /\ season.load = "ok"
    /\ season.losers_bracket.status = "ok"
    /\ \E i \in 1..Len(season.losers_bracket.records) :
            LET m == season.losers_bracket.records[i]
            IN  LeagueSeedOf(m.t1) \in 9..12 /\ LeagueSeedOf(m.t2) \in 9..12

\* participants of the season's championship bracket / lower tier
WinnersParticipants(season) ==
    LET b == season.winners_bracket.records
    IN  UNION {{b[i].t1, b[i].t2} : i \in 1..Len(b)} \ {None}

LowerParticipants(season) ==
    LET b == season.losers_bracket.records
    IN  UNION {{b[i].t1, b[i].t2} :
                i \in {k \in 1..Len(b) : LeagueSeedOf(b[k].t1) \in 9..12 /\ LeagueSeedOf(b[k].t2) \in 9..12}}
        \ {None}

\* what the two books hold for a team (zero when the team has no entry)
PostTotals(team) == DictGet(team_post_season_stats, team, ZeroPostSeasonStats)
ToiletTotals(team) == DictGet(team_toilet_bowl_stats, team, ZeroToiletBowlStats)

\* positions of the first n seasons that have the data of a book
PostCounted(n) == {i \in 1..n : HasWinnersBracket(available_seasons[i])}
ToiletCounted(n) == {i \in 1..n : HasLowerTier(available_seasons[i])}

PostResult(i) ==
    PostSeasonChampion(available_seasons[i].winners_bracket.records,
                       SeasonRosters(available_seasons[i]))

ToiletResult(i) ==
    ToiletBowlResult(ToiletBowlFilter(available_seasons[i].losers_bracket.records,
                                      LeagueSeeds),
                     SeasonRosters(available_seasons[i]))

\* C23: in both books, after any number of seasons of the list, a team's
\* titles, runner-ups (last places) and appearances are the counts over the
\* processed seasons whose bracket data was loaded and is not empty: a season
\* whose data is missing, empty or failed to load adds nothing, the loop goes
\* on after it, and every other season is counted.
C23_BadSeasonAddsNothing ==
    \A team \in Teams :
        /\ PostTotals(team).titles =
              Cardinality({i \in PostCounted(post_idx - 1) : PostResult(i).champion = team})
        /\ PostTotals(team).runner_ups =
              Cardinality({i \in PostCounted(post_idx - 1) : PostResult(i).runner_up = team})
        /\ PostTotals(team).appearances =
              Cardinality({i \in PostCounted(post_idx - 1) :
                              team \in WinnersParticipants(available_seasons[i])})
        /\ ToiletTotals(team).titles =
              Cardinality({i \in ToiletCounted(toilet_idx - 1) : ToiletResult(i).champion = team})
        /\ ToiletTotals(team).losers =
              Cardinality({i \in ToiletCounted(toilet_idx - 1) : ToiletResult(i).loser = team})
        /\ ToiletTotals(team).appearances =
              Cardinality({i \in ToiletCounted(toilet_idx - 1) :
                              team \in LowerParticipants(available_seasons[i])})

\* both loops are over, and a season without data of either book stood before
\* a season whose champions were counted
C23_Witness ==
    /\ post_idx > Len(available_seasons)
    /\ toilet_idx > Len(available_seasons)
    /\ \E i, j \in 1..Len(available_seasons) :
          /\ i < j
          /\ ~ HasWinnersBracket(available_seasons[i])
          /\ ~ HasLowerTier(available_seasons[i])
          /\ HasWinnersBracket(available_seasons[j])
          /\ HasLowerTier(available_seasons[j])
          /\ PostResult(j).champion # None
          /\ PostTotals(PostResult(j).champion).titles >= 1
          /\ ToiletResult(j).champion # None
          /\ ToiletTotals(ToiletResult(j).champion).titles >= 1

\* the years of the list, and the season of a year
Years == {available_seasons[i].year : i \in 1..Len(available_seasons)}

SeasonOfYear(year) ==
    available_seasons[CHOOSE i \in 1..Len(available_seasons) :
                          available_seasons[i].year = year]

\* the entries of a game: week w of the season, matchup id, rosters of the book
GameEntries(season, w, id, roster_ids) ==
    LET ms == season.weeks[w].matchups
    IN  {ms[k] : k \in {x \in 1..Len(ms) : ms[x].matchup_id = id /\ ms[x].roster_id \in roster_ids}}

\* the games of a season a book counts: two teams of the book, points scored
CountedGames(season, roster_ids) ==
    {g \in UNION {{<<w, season.weeks[w].matchups[k].matchup_id>> :
                        k \in 1..Len(season.weeks[w].matchups)} :
                    w \in {x \in 1..Len(season.weeks) : season.weeks[x].status = "ok"}} :
        LET es == GameEntries(season, g[1], g[2], roster_ids)
        IN  /\ Cardinality(es) = 2
            /\ \E e1, e2 \in es : e1 # e2 /\ e1.points + e2.points > 0}

GamesOf(team, season, roster_ids) ==
    {g \in CountedGames(season, roster_ids) :
        \E e \in GameEntries(season, g[1], g[2], roster_ids) : e.roster_id = team}

WinsOf(team, season, roster_ids) ==
    {g \in GamesOf(team, season, roster_ids) :
        \E e1, e2 \in GameEntries(season, g[1], g[2], roster_ids) :
            e1.roster_id = team /\ e2.roster_id # team /\ e1.points > e2.points}

LossesOf(team, season, roster_ids) ==
    {g \in GamesOf(team, season, roster_ids) :
        \E e1, e2 \in GameEntries(season, g[1], g[2], roster_ids) :
            e1.roster_id = team /\ e2.roster_id # team /\ e1.points < e2.points}

\* the sum of n[year] over a set of years
RECURSIVE SumOverYears(_, _)
SumOverYears(years, n) ==
    IF years = {} THEN 0
    ELSE LET year == CHOOSE y \in years : TRUE
         IN  n[year] + SumOverYears(years \ {year}, n)

\* the years whose season has the data of a book
PostYears == {y \in Years : HasWinnersBracket(SeasonOfYear(y))}
ToiletYears == {y \in Years : HasLowerTier(SeasonOfYear(y))}

\* the totals of a team as a function of the set of seasons
PostTotalsOfSet(team) ==
    [titles |-> Cardinality({y \in PostYears :
                    PostSeasonChampion(SeasonOfYear(y).winners_bracket.records,
                                       League).champion = team}),
     runner_ups |-> Cardinality({y \in PostYears :
                    PostSeasonChampion(SeasonOfYear(y).winners_bracket.records,
                                       League).runner_up = team}),
     appearances |-> Cardinality({y \in PostYears :
                    team \in WinnersParticipants(SeasonOfYear(y))}),
     wins |-> SumOverYears(PostYears, [y \in PostYears |->
                    Cardinality(WinsOf(team, SeasonOfYear(y),
                                       WinnersParticipants(SeasonOfYear(y))))]),
     losses |-> SumOverYears(PostYears, [y \in PostYears |->
                    Cardinality(LossesOf(team, SeasonOfYear(y),
                                         WinnersParticipants(SeasonOfYear(y))))]),
     games |-> SumOverYears(PostYears, [y \in PostYears |->
                    Cardinality(GamesOf(team, SeasonOfYear(y),
                                        WinnersParticipants(SeasonOfYear(y))))])]

ToiletGamesOfSet(team) ==
    [wins |-> SumOverYears(ToiletYears, [y \in ToiletYears |->
                    Cardinality(WinsOf(team, SeasonOfYear(y),
                                       LowerParticipants(SeasonOfYear(y))))]),
     losses |-> SumOverYears(ToiletYears, [y \in ToiletYears |->
                    Cardinality(LossesOf(team, SeasonOfYear(y),
                                         LowerParticipants(SeasonOfYear(y))))]),
     games |-> SumOverYears(ToiletYears, [y \in ToiletYears |->
                    Cardinality(GamesOf(team, SeasonOfYear(y),
                                        LowerParticipants(SeasonOfYear(y))))])]

FoldsDone ==
    /\ post_idx > Len(available_seasons)
    /\ toilet_idx > Len(available_seasons)
    /\ pc = "combined"

\* C24: when the seasons have been folded, in whatever order the list holds
\* them, every team's titles, runner-ups, appearances, wins, losses and games
\* and the sizes of the combined transaction lists are functions of the set
\* of seasons alone (sums over the years), so every permutation of the same
\* seasons gives the same totals.
C24_TotalsOrderIndependent ==
    FoldsDone =>
        /\ \A team \in Teams :
              /\ \A field \in DOMAIN PostTotalsOfSet(team) :
                    PostTotals(team)[field] = PostTotalsOfSet(team)[field]
              /\ \A field \in DOMAIN ToiletGamesOfSet(team) :
                    ToiletTotals(team)[field] = ToiletGamesOfSet(team)[field]
        /\ Len(all_trades) = SumOverYears(Years, [y \in Years |-> Len(SeasonOfYear(y).parsed.trades)])
        /\ Len(all_waivers) = SumOverYears(Years, [y \in Years |-> Len(SeasonOfYear(y).parsed.waivers)])
        /\ Len(all_add_drops) =
              SumOverYears(Years, [y \in Years |-> Len(SeasonOfYear(y).parsed.add_drops)])

\* the folds are over for a list that is not in the order of the years, with
\* a champion of one season who was runner-up of an earlier one, games won in
\* both books and trades of two years combined
C24_Witness ==
    /\ FoldsDone
    /\ \E i, j \in 1..Len(available_seasons) :
          /\ i < j
          /\ available_seasons[i].year > available_seasons[j].year
          /\ HasWinnersBracket(available_seasons[i])
          /\ HasWinnersBracket(available_seasons[j])
          /\ PostResult(i).runner_up # None
          /\ PostResult(i).runner_up = PostResult(j).champion
          /\ all_trades # <<>>
          /\ all_trades[1].year # all_trades[Len(all_trades)].year
    /\ \E team \in Teams : PostTotals(team).wins >= 2
    /\ \E team \in Teams : ToiletTotals(team).wins >= 1

(***************************************************************************)
(* Repeated calls of the bracket resolver and of the trade valuation on    *)
(* arguments the caller keeps                                              *)
(***************************************************************************)
\* for week_num in range(trade_week, 19), for one player
RECURSIVE CalcWeeksLoop(_, _, _, _, _)
CalcWeeksLoop(md, roster_id, player_id, week_num, acc) ==
    IF week_num > LastWeek THEN acc
    ELSE LET add == TradeWeekStats(md, roster_id, player_id, week_num)
         IN  CalcWeeksLoop(md, roster_id, player_id, week_num + 1,
                           [lineup |-> acc.lineup + add.lineup,
                            bench |-> acc.bench + add.bench,
                            starts |-> acc.starts + add.starts])

\* for player_name in players_list: a name without player id is skipped
RECURSIVE CalcPlayersLoop(_, _, _, _, _, _)
CalcPlayersLoop(md, catalog, players_list, roster_id, trade_week, acc) ==
    IF players_list = <<>> THEN acc
    ELSE LET player_name == Head(players_list)
             mapping == player_name_to_id(catalog)
         IN  CalcPlayersLoop(md, catalog, Tail(players_list), roster_id, trade_week,
                IF player_name \notin DOMAIN mapping THEN acc
                ELSE CalcWeeksLoop(md, roster_id, mapping[player_name], trade_week, acc))

\* calc_player_stats_after_trade(players_list, roster_id, trade_week): the
\* three totals start at zero in every call
calc_player_stats_after_trade(md, catalog, players_list, roster_id, trade_week) ==
    CalcPlayersLoop(md, catalog, players_list, roster_id, trade_week, NoStats)

MaxCalls == 3       \* a caller makes up to MaxCalls calls

\* grouped feeds of the calls: a decided title game; the same title game
\* after a round 1 whose 4v5 game is open; a complete round 1; no records
CallFeedPool ==
    {GroupByRound(TitleOne),
     GroupByRound(WithMatchupIds(Round1Open \o <<Rec(2, 1, 5, 1)>>, "distinct")),
     GroupByRound(WithMatchupIds(Round1Full, "distinct")),
     EmptyDict}

\* snapshots of the last weeks: roster 1 starts player 1 in week 17 and has
\* the player on the bench in week 18
CallMatchupData ==
    MatchupData((17 :> ((1 :> [starters |-> {1}, players_points |-> (1 :> 2000)])
                        @@ (2 :> Roster2Snapshot)))
                @@ (18 :> ((1 :> [starters |-> {}, players_points |-> (1 :> 800)])
                           @@ (2 :> Roster2Snapshot))))

\* arguments of the valuation calls: players_list, roster_id, trade_week
ValuationArgs ==
    {<<<<FullCatalog[1]>>, 1, 17>>,
     <<<<FullCatalog[1], FullCatalog[2]>>, 1, 18>>,
     <<<<FullCatalog[2]>>, 2, 17>>}

InitCalls ==
    /\ rosters = League
    /\ seed_map = get_playoff_seeds(rosters)
    /\ winners_bracket = <<>>
    /\ losers_bracket = <<>>
    /\ NoBracketOutputs
    /\ transactions = <<>>
    /\ players = FullCatalog
    /\ matchup_data = CallMatchupData
    /\ trades = <<>>
    /\ waivers = <<>>
    /\ trade_analyses = <<>>
    /\ valuable_pickups = <<>>
    /\ frame = NoFrame
    /\ first_place_season = None
    /\ available_seasons = <<>>
    /\ post_idx = 1
    /\ toilet_idx = 1
    /\ team_post_season_stats = EmptyDict
    /\ team_toilet_bowl_stats = EmptyDict
    /\ all_trades = <<>>
    /\ all_waivers = <<>>
    /\ all_add_drops = <<>>
    /\ call_feeds \in [1..2 -> CallFeedPool]
    /\ round_winners = EmptyDict
    /\ call_log = <<>>
    /\ pc = "calls"

\* structured = build_tournament_bracket(call_feeds[k], seed_map); the
\* arguments are only read
CallBuildTournamentBracket ==
    /\ pc = "calls"
    /\ Len(call_log) < MaxCalls
    /\ \E k \in DOMAIN call_feeds :
          LET matchups_by_round == call_feeds[k]
              result == IF DOMAIN matchups_by_round = {} THEN EmptyDict
                        ELSE BracketState(matchups_by_round, seed_map).structured_bracket
          IN  /\ round_winners' =
                    IF DOMAIN matchups_by_round = {} THEN round_winners
                    ELSE BracketState(matchups_by_round, seed_map).round_winners
              /\ structured_bracket' = result
              /\ call_log' = Append(call_log,
                                [fn |-> "build_tournament_bracket",
                                 input |-> <<matchups_by_round, seed_map>>,
                                 result |-> result])
    /\ UNCHANGED <<inputs, seed_map, champion, runner_up, tier_outputs, transaction_state,
                   first_place_season, records_state, call_feeds, pc>>

\* calc_player_stats_after_trade(players_list, roster_id, trade_week) over
\* the matchup data and the player catalog of the enclosing scope
CallCalcPlayerStats ==
    /\ pc = "calls"
    /\ Len(call_log) < MaxCalls
    /\ \E args \in ValuationArgs :
          call_log' = Append(call_log,
                        [fn |-> "calc_player_stats_after_trade",
                         input |-> <<matchup_data, players, args>>,
                         result |-> calc_player_stats_after_trade(matchup_data, players,
                                        args[1], args[2], args[3])])
    /\ UNCHANGED <<inputs, seed_map, bracket_outputs, tier_outputs, transaction_state,
                   first_place_season, records_state, call_feeds, round_winners, pc>>

NextCalls ==
    \/ CallBuildTournamentBracket
    \/ CallCalcPlayerStats

SpecCalls == InitCalls /\ [][NextCalls]_vars

(***************************************************************************)
(* Claims about repeated calls (checked under SpecCalls)                   *)
(***************************************************************************)
BuildCalls == {i \in 1..Len(call_log) : call_log[i].fn = "build_tournament_bracket"}
ValuationCalls == {i \in 1..Len(call_log) : call_log[i].fn = "calc_player_stats_after_trade"}

====
